---------------------------- MODULE Spec2Model ----------------------------
(***************************************************************************)
(* Model of the tunnel supervisor (app/services/port_forward.py,           *)
(* PortForwardManager) and of the SSH connection pool                      *)
(* (app/services/ssh_manager.py, SSHConnectionPool), of the login          *)
(* protection (app/services/login_protection.py with the admin login of    *)
(* app/routes/main.py) and of the task monitor                             *)
(* (app/services/task_monitor.py).                                         *)
(*                                                                         *)
(* Threads: request threads (Callers) calling the public methods, one      *)
(* worker thread per tunnel (_forward_worker), the child ssh processes and *)
(* the operating system's port table as environment.                       *)
(* A statement that runs under "with self.lock" is atomic with respect to  *)
(* the other lock holders only; the worker writes forward['status']        *)
(* without the lock, so every unlocked read and write of shared state is a *)
(* step of its own.                                                        *)
(***************************************************************************)
EXTENDS Integers, FiniteSets, Sequences, TLC

\* ------------------------------------------------------------------ bounds
NumCallers == 2          \* request threads
MaxForwards == 2         \* create_forward calls that reach the counter
NumPorts == 2            \* size of the auto-allocation range
NumOsPorts == 1          \* ports of the range that other processes may hold
NumPoolThreads == 2      \* threads calling the connection pool
MaxClients == 2          \* SSH clients the pool model connects
MaxCloseAll == 2         \* close_all calls
NumAdminThreads == 1     \* threads calling the pool beside the store's methods
NumRequests == 2         \* concurrent admin login requests
MaxTime == 8             \* the clock stops after this many time units
MaxLockouts == 3         \* lockouts of an IP where the clock runs
MaxLockoutRun == 1026    \* lockouts of an IP in a row, the clock standing still
NumTasks == 2            \* add_task calls

\* ------------------------------------------------------- program constants
FORWARD_START == 16006
MAX_PORT_RETRY == 5
TENSORBOARD == 6006
JUPYTER == 8888
DEFAULT_SSH_PORT == 22

\* LoginProtectionConfig, the defaults the global login_protection runs with
max_attempts == 5
window_seconds == 300
base_lockout_seconds == 60
max_lockout_seconds == 3600
lockout_multiplier == 2
\* the float range of the interpreter: 2.0 ** n raises OverflowError from here on
FLOAT_MAX_EXP == 1024
\* the clock of the model counts units of TimeUnit seconds; every duration of
\* the configuration is a multiple of it
TimeUnit == 60
Window == window_seconds \div TimeUnit

\* PortRange.FORWARD_MAX, scaled to a range of NumPorts ports
FORWARD_MAX == FORWARD_START + NumPorts - 1

Callers == 1 .. NumCallers
AutoPorts == FORWARD_START .. FORWARD_MAX
\* local_port arguments: None, or a port
None == 0
ExplicitPorts == AutoPorts
OsBusySets == SUBSET (FORWARD_START .. (FORWARD_START + NumOsPorts - 1))

\* ---------------------------------------------------- the descriptor store
\* A field of a server's config is "absent" (no key), "empty" or "set"; the
\* host is "absent" or an address.
ServerConfig(key_file, password) ==
    [key_file |-> key_file, password |-> password, host |-> "host_a"]
\* ssh_pool.servers as _load_servers builds it from the YAML file (no validation)
StoredServers ==
    ("gpu_key" :> ServerConfig("set", "absent")) @@
    ("gpu_pw" :> ServerConfig("absent", "set")) @@
    ("gpu_noauth" :> ServerConfig("absent", "absent"))
\* server_name arguments of create_forward: a server with credentials, one
\* without, and a name that is not stored
ServerArgs == {"gpu_key", "gpu_noauth", "ghost"}

\* server_name arguments of the pool's methods
PoolArgs == {"gpu_key", "gpu_noauth", "ghost"}
PoolThreads == 1 .. NumPoolThreads

VARIABLES
    servers,            \* ssh_pool.servers: name -> config
    connections,        \* ssh_pool.connections: name -> client
    clients,            \* the SSHClient objects connected so far, by number
    pool_lock,          \* ssh_pool.lock: 0 (free) or the thread holding it
    standalone_clients, \* ssh_pool._standalone_clients
    pool_threads,       \* where each thread calling the pool is, and its result
    forwards,           \* keys of self.forwards
    forward_info,       \* the forward_info dicts, by id (they outlive their key)
    forward_counter,    \* self.forward_counter
    lock,               \* self.lock: 0 (free) or the caller holding it
    reserved_ports,     \* self._reserved_ports
    forward_threads,    \* keys of self.forward_threads
    forward_processes,  \* keys of self.forward_processes
    process,            \* the child process of each worker: none, alive, exited
    worker,             \* where each _forward_worker thread is
    callers,            \* where each request thread is, its arguments and result
    os_busy,            \* ports on which bind() fails (held by other processes)
    stop_returned,      \* ids for which stop_forward ran its running branch and returned
    last_call,          \* the result of the call that returned last
    auto_ids,           \* ids created without a local_port, every bind test passing
    cleanup_running,    \* ssh_pool._cleanup_running
    sweeper,            \* the SSHConnectionCleanup thread: where it is, its counts
    closer,             \* where the thread calling close_all is
    close_all_returned, \* close_all calls that have returned
    last_store,         \* what the last call that changes the store returned
    build_input,        \* a server config and the ports of a tunnel
    build_output,       \* the command and environment built from them
    now,                \* time.time(), in units of TimeUnit seconds
    attempts,           \* login_protection._attempts: ip -> LoginAttempt
    lockout_counts,     \* login_protection._lockout_counts: ip -> int
    requests,           \* where each admin login request is
    fail_times,         \* when the failures recorded since the last reset happened
    last_login,         \* what the service call that returned last returned
    tasks,              \* task_monitor.tasks: task id -> task dict
    task_counter,       \* task_monitor.task_counter
    monitor,            \* the monitor thread: where it is, the ids it still visits
    notified,           \* completion mails sent, by task id
    pid_alive,          \* whether the watched process of a task still runs
    check_outcome       \* how the last remote check of a task went

pfvars == <<forwards, forward_info, forward_counter, lock, reserved_ports,
            forward_threads, forward_processes, process, worker, callers,
            os_busy, stop_returned, last_call, auto_ids>>
poolvars == <<servers, connections, clients, pool_lock, standalone_clients,
              pool_threads>>
\* the sweeper thread of the pool, close_all, and the store's last result
sweepvars == <<cleanup_running, sweeper, closer, close_all_returned, last_store>>
\* the child command a worker builds
cmdvars == <<build_input, build_output>>
\* the login protection service and the admin login requests
loginvars == <<now, attempts, lockout_counts, requests, fail_times, last_login>>
\* the task monitor
taskvars == <<tasks, task_counter, monitor, notified, pid_alive, check_outcome>>
vars == <<poolvars, pfvars, sweepvars, cmdvars, loginvars, taskvars>>

\* A request thread: where it is (pc), the call it runs (op), the call's
\* arguments (server_name, fid) and its locals (retry: the scans that failed;
\* clear: every bind test of the call has passed so far).  A thread is idle
\* until its call reaches self.lock: nothing of a call is visible before.
IdleCaller == [pc |-> "idle", op |-> "none", server_name |-> "none",
               fid |-> 0, retry |-> 0, clear |-> FALSE]

\* What the call that returned last returned: the operation, its result, the
\* id it was about (for create_forward the id created, 0 if none), the
\* local_port argument of a create_forward, and clear as above.
NoCall == [op |-> "none", ret |-> FALSE, fid |-> 0, local_port |-> None,
           clear |-> FALSE]

Ids == DOMAIN forward_info
NonTerminal == {"starting", "running", "stopping"}
Terminal == {"stopped", "error"}

\* ------------------------------------------------------------ port checks
\* the socket bind test of _is_port_available
BindOk(port) == port \notin os_busy

\* mutant: only the bind test, no look at the reservations or the tunnels
IsPortAvailable_BindOnly(port) == BindOk(port)

IsPortAvailable(port) ==
    /\ port \notin reserved_ports
    /\ \A i \in forwards :
          ~(forward_info[i].local_port = port
            /\ forward_info[i].status \in {"running", "starting"})
    /\ BindOk(port)

\* mutant: the scan returns the last available port of the range
ScanPort_Highest ==
    IF \E p \in AutoPorts : IsPortAvailable(p)
    THEN CHOOSE p \in AutoPorts :
            /\ IsPortAvailable(p)
            /\ \A q \in AutoPorts : IsPortAvailable(q) => q <= p
    ELSE None

\* one scan of _find_and_reserve_port: the first available port, or None
ScanPort ==
    IF \E p \in AutoPorts : IsPortAvailable(p)
    THEN CHOOSE p \in AutoPorts :
            /\ IsPortAvailable(p)
            /\ \A q \in AutoPorts : IsPortAvailable(q) => p <= q
    ELSE None


\* --------------------------------------------------------------- helpers
\* mutant: the port is handed out without being reserved
ReservePort_Forgotten(port) == reserved_ports

\* self._reserved_ports.add(port), lines 76 and 156
ReservePort(port) == reserved_ports \cup {port}

SetInfo(id, field, val) == [forward_info EXCEPT ![id][field] = val]

NewForward(server_name, local_port) ==
    [server_name |-> server_name, local_port |-> local_port,
     status |-> "starting", stopped_at |-> FALSE, error |-> FALSE]

\* a request thread returns: its result is kept until its next call
Return(c, op, ret, fid, local_port, clear) ==
    /\ callers' = [callers EXCEPT ![c] = IdleCaller]
    /\ last_call' = [op |-> op, ret |-> ret, fid |-> fid,
                     local_port |-> local_port, clear |-> clear]

TypeOK ==
    /\ forwards \subseteq Ids
    /\ Ids = 1 .. forward_counter
    /\ lock \in {0} \cup Callers
    /\ reserved_ports \subseteq ExplicitPorts
    /\ os_busy \in OsBusySets
    /\ \A i \in Ids : forward_info[i].status \in NonTerminal \cup Terminal

\* A thread calling the pool: where it is (pc), the method it called (op) with
\* which server name and command (cmd), the client it holds, the pooled client
\* its call discarded as stale, and what the call returned: nothing yet, a
\* client, None, a result dict (success, stdout, stderr, exit_code, and the
\* step that failed), or an exception that left the method (raised).
NoReturn == [kind |-> "none", success |-> FALSE, exit_code |-> 0,
             stdout |-> "none", stderr |-> "none", cause |-> "none"]
IdlePoolThread == [pc |-> "idle", op |-> "none", name |-> "none", cmd |-> "none",
                   client |-> 0, stale |-> 0, ret |-> NoReturn]

\* a server config as the worker reads it (key_file and password: "absent",
\* empty or a value; port: 0 when absent) and the tunnel's two ports
NoInput == [key_file |-> "absent", password |-> "absent", port |-> 0,
            local_port |-> FORWARD_START, remote_port |-> TENSORBOARD]
NotBuilt == [built |-> FALSE, raised |-> FALSE, ssh_command |-> <<>>,
             SSHPASS |-> "unset"]

\* client addresses and the threads serving their admin login requests
IPs == {"ip_a"}
Requests == 1 .. NumRequests
\* a LoginAttempt as the defaultdict creates it
NewAttempt == [count |-> 0, first_attempt |-> 0, last_attempt |-> 0, locked_until |-> 0]
\* what a call of the login protection service returned: check_rate_limit's
\* allowed, record_failed_attempt's locked, lockout_seconds and lockout_count,
\* or that the call raised; at is the time of the call
NoLogin == [op |-> "none", ip |-> "none", at |-> 0, allowed |-> FALSE, locked |-> FALSE,
            lockout_seconds |-> 0, lockout_count |-> 0, raised |-> FALSE]

\* the monitor thread asleep between two rounds
MonitorSleeping == [pc |-> "sleep", task_ids |-> <<>>]
TaskIds == 1 .. NumTasks

\* the sweeper thread at the top of its loop, nothing cleaned yet
SweeperStart == [pc |-> "check", cleaned_pool |-> 0, cleaned_standalone |-> 0]

Init ==
    /\ servers = StoredServers
    /\ connections = <<>>
    /\ clients = <<>>
    /\ pool_lock = 0
    /\ standalone_clients = {}
    /\ pool_threads = [t \in PoolThreads |-> IdlePoolThread]
    /\ forwards = {}
    /\ forward_info = <<>>
    /\ forward_counter = 0
    /\ lock = 0
    /\ reserved_ports = {}
    /\ forward_threads = {}
    /\ forward_processes = {}
    /\ process = <<>>
    /\ worker = <<>>
    /\ callers = [c \in Callers |-> IdleCaller]
    /\ os_busy = {}
    /\ stop_returned = {}
    /\ last_call = NoCall
    /\ auto_ids = {}
    /\ cleanup_running = TRUE
    /\ sweeper = SweeperStart
    /\ closer = "idle"
    /\ close_all_returned = 0
    /\ last_store = "none"
    /\ build_input = NoInput
    /\ build_output = NotBuilt
    /\ now = 1
    /\ attempts = <<>>
    /\ lockout_counts = <<>>
    /\ requests = [r \in Requests |-> "idle"]
    /\ fail_times = <<>>
    /\ last_login = NoLogin
    /\ tasks = <<>>
    /\ task_counter = 0
    /\ monitor = MonitorSleeping
    /\ notified = <<>>
    /\ pid_alive = <<>>
    /\ check_outcome = <<>>

\* ---------------------------------------------------------- create_forward
\* lines 76/156 and 78-115: reserve the port, create the descriptor in
\* 'starting', start its worker thread, leave the lock and return success
Commit(c, server_name, local_port, port, clear) ==
    LET id == forward_counter + 1 IN
    /\ reserved_ports' = ReservePort(port)
    /\ forward_counter' = id
    /\ forward_info' = forward_info @@ (id :> NewForward(server_name, port))
    /\ forwards' = forwards \cup {id}
    /\ worker' = worker @@ (id :> "w_start")
    /\ process' = process @@ (id :> "none")
    /\ forward_threads' = forward_threads \cup {id}
    /\ lock' = 0
    /\ auto_ids' = IF local_port = None /\ clear THEN auto_ids \cup {id} ELSE auto_ids
    /\ Return(c, "create", TRUE, id, local_port, clear)
    /\ UNCHANGED <<poolvars, sweepvars, cmdvars, loginvars, taskvars, forward_processes, os_busy, stop_returned>>

\* mutant: the refused explicit port is reserved all the same
CreateFail_Reserving(c, local_port, clear) ==
    /\ lock' = 0
    /\ reserved_ports' = IF local_port # None THEN reserved_ports \cup {local_port}
                          ELSE reserved_ports
    /\ Return(c, "create", FALSE, 0, local_port, clear)
    /\ UNCHANGED <<poolvars, sweepvars, cmdvars, loginvars, taskvars, forwards, forward_info, forward_counter,
                   forward_threads, forward_processes, process,
                   worker, os_busy, stop_returned, auto_ids>>

\* lines 63-67 and 70-74: return an error, nothing reserved
CreateFail(c, local_port, clear) ==
    /\ lock' = 0
    /\ Return(c, "create", FALSE, 0, local_port, clear)
    /\ UNCHANGED <<poolvars, sweepvars, cmdvars, loginvars, taskvars, forwards, forward_info, forward_counter,
                   reserved_ports, forward_threads, forward_processes, process,
                   worker, os_busy, stop_returned, auto_ids>>

\* mutant: the first failed scan gives up
ScanFailed_Once(c, server_name, clear) == CreateFail(c, None, clear)

\* one failed scan of _find_and_reserve_port: sleep 0.1 s holding the lock, and
\* give up after MAX_PORT_RETRY scans (lines 149-163)
ScanFailed(c, server_name, clear) ==
    IF callers[c].retry + 1 < MAX_PORT_RETRY
    THEN /\ lock' = c
         /\ callers' = [callers EXCEPT ![c] =
                            [IdleCaller EXCEPT !.pc = "scan", !.op = "create",
                                               !.server_name = server_name,
                                               !.retry = callers[c].retry + 1,
                                               !.clear = clear]]
         /\ UNCHANGED <<poolvars, sweepvars, cmdvars, loginvars, taskvars, forwards, forward_info, forward_counter,
                        reserved_ports, forward_threads, forward_processes,
                        process, worker, os_busy, stop_returned, last_call,
                        auto_ids>>
    ELSE CreateFail(c, None, clear)

\* create_forward takes the lock (line 59); an explicit port is checked and
\* reserved (68-76), otherwise the first scan runs (61-62).  The arguments
\* are drawn here, where the call first reads them.
CreateForward(c) ==
    /\ callers[c].pc = "idle"
    /\ lock = 0
    /\ forward_counter < MaxForwards
    /\ \E server_name \in ServerArgs, local_port \in {None} \cup ExplicitPorts :
          IF local_port # None
          THEN IF IsPortAvailable(local_port)
               THEN Commit(c, server_name, local_port, local_port, BindOk(local_port))
               ELSE CreateFail(c, local_port, BindOk(local_port))
          ELSE IF ScanPort # None
               THEN Commit(c, server_name, None, ScanPort, os_busy = {})
               ELSE ScanFailed(c, server_name, os_busy = {})

\* a later scan of _find_and_reserve_port, after the sleep (lines 149-161)
ScanRetry(c) ==
    /\ callers[c].pc = "scan"
    /\ lock = c
    /\ IF ScanPort # None
       THEN Commit(c, callers[c].server_name, None, ScanPort,
                   callers[c].clear /\ os_busy = {})
       ELSE ScanFailed(c, callers[c].server_name, callers[c].clear /\ os_busy = {})

\* --------------------------------------------------------- _forward_worker
\* the except clause (lines 273-275): status 'error' and the message
WorkerRaise(id) ==
    /\ forward_info' = [forward_info EXCEPT ![id].status = "error", ![id].error = TRUE]
    /\ worker' = [worker EXCEPT ![id] = "w_finally"]

\* the key is used when set, else the password when set (lines 234-243)
AuthOf(cfg) ==
    IF cfg.key_file = "set" THEN "key"
    ELSE IF cfg.password = "set" THEN "password"
    ELSE "none"

\* lines 191-245: look the descriptor up, resolve the server's config and
\* credentials, then mark the tunnel running
WorkerStart(id) ==
    /\ worker[id] = "w_start"
    /\ IF id \notin forwards
       THEN /\ worker' = [worker EXCEPT ![id] = "w_done"]
            /\ UNCHANGED forward_info
       ELSE IF forward_info[id].server_name \notin DOMAIN servers
            THEN WorkerRaise(id)
       ELSE IF AuthOf(servers[forward_info[id].server_name]) = "none"
            THEN WorkerRaise(id)
       ELSE /\ forward_info' = SetInfo(id, "status", "running")
            /\ worker' = [worker EXCEPT ![id] = "w_spawn"]
    /\ UNCHANGED <<poolvars, sweepvars, cmdvars, loginvars, taskvars, forwards, forward_counter, lock, reserved_ports,
                   forward_threads, forward_processes, process, callers,
                   os_busy, stop_returned, last_call, auto_ids>>

\* lines 249-251: Popen starts the child (or raises, the binary missing) and
\* the process is entered in forward_processes
WorkerSpawn(id) ==
    /\ worker[id] = "w_spawn"
    /\ \E started \in BOOLEAN :
          IF started
          THEN /\ process' = [process EXCEPT ![id] = "alive"]
               /\ forward_processes' = forward_processes \cup {id}
               /\ worker' = [worker EXCEPT ![id] = "w_loop"]
               /\ UNCHANGED forward_info
          ELSE /\ WorkerRaise(id)
               /\ UNCHANGED <<process, forward_processes>>
    /\ UNCHANGED <<poolvars, sweepvars, cmdvars, loginvars, taskvars, forwards, forward_counter, lock, reserved_ports,
                   forward_threads, callers, os_busy, stop_returned, last_call, auto_ids>>

\* line 254: the loop condition reads the status
WorkerLoop(id) ==
    /\ worker[id] = "w_loop"
    /\ worker' = [worker EXCEPT ![id] =
                     IF forward_info[id].status = "running" THEN "w_poll" ELSE "w_term"]
    /\ UNCHANGED <<poolvars, sweepvars, cmdvars, loginvars, taskvars, forwards, forward_info, forward_counter, lock,
                   reserved_ports, forward_threads, forward_processes, process,
                   callers, os_busy, stop_returned, last_call, auto_ids>>

\* lines 256-266: poll the child; if it has exited read its stderr, which
\* either raises (non-empty without 'Warning') or leaves the loop, where the
\* exited child needs no terminate (line 266)
WorkerPoll(id) ==
    /\ worker[id] = "w_poll"
    /\ IF process[id] = "alive"
       THEN /\ worker' = [worker EXCEPT ![id] = "w_loop"]
            /\ UNCHANGED forward_info
       ELSE \E stderr \in {"empty", "warning", "message"} :
               IF stderr = "message"
               THEN WorkerRaise(id)
               ELSE /\ worker' = [worker EXCEPT ![id] = "w_finally"]
                    /\ UNCHANGED forward_info
    /\ UNCHANGED <<poolvars, sweepvars, cmdvars, loginvars, taskvars, forwards, forward_counter, lock, reserved_ports,
                   forward_threads, forward_processes, process, callers,
                   os_busy, stop_returned, last_call, auto_ids>>

\* mutant: the worker leaves the loop without terminating its child
WorkerTerminate_Skip(id) ==
    /\ worker[id] = "w_term"
    /\ worker' = [worker EXCEPT ![id] = "w_finally"]
    /\ UNCHANGED <<poolvars, sweepvars, cmdvars, loginvars, taskvars, forwards, forward_info, forward_counter, lock,
                   reserved_ports, forward_threads, forward_processes, process, callers,
                   os_busy, stop_returned, last_call, auto_ids>>

\* lines 266-271: terminate the child if it still runs (wait, then kill)
WorkerTerminate(id) ==
    /\ worker[id] = "w_term"
    /\ process' = [process EXCEPT ![id] =
                      IF process[id] = "alive" THEN "exited" ELSE process[id]]
    /\ worker' = [worker EXCEPT ![id] = "w_finally"]
    /\ UNCHANGED <<poolvars, sweepvars, cmdvars, loginvars, taskvars, forwards, forward_info, forward_counter, lock,
                   reserved_ports, forward_threads, forward_processes, callers,
                   os_busy, stop_returned, last_call, auto_ids>>

\* lines 284-285: record stopped_at and read the status; a status other than
\* 'running' is left as it is and the process entry is dropped (289-290)
WorkerFinally(id) ==
    /\ worker[id] = "w_finally"
    /\ forward_info' = SetInfo(id, "stopped_at", TRUE)
    /\ IF forward_info[id].status = "running"
       THEN /\ worker' = [worker EXCEPT ![id] = "w_set_stopped"]
            /\ UNCHANGED forward_processes
       ELSE /\ worker' = [worker EXCEPT ![id] = "w_release"]
            /\ forward_processes' = forward_processes \ {id}
    /\ UNCHANGED <<poolvars, sweepvars, cmdvars, loginvars, taskvars, forwards, forward_counter, lock, reserved_ports,
                   forward_threads, process, callers, os_busy, stop_returned,
                   last_call, auto_ids>>

\* line 286, then the process entry is dropped (289-290)
WorkerSetStopped(id) ==
    /\ worker[id] = "w_set_stopped"
    /\ forward_info' = SetInfo(id, "status", "stopped")
    /\ forward_processes' = forward_processes \ {id}
    /\ worker' = [worker EXCEPT ![id] = "w_release"]
    /\ UNCHANGED <<poolvars, sweepvars, cmdvars, loginvars, taskvars, forwards, forward_counter, lock, reserved_ports,
                   forward_threads, process, callers, os_busy, stop_returned,
                   last_call, auto_ids>>

\* mutant: the release empties the reservation set
ReleaseReservedPort_All(port) == {}

\* _release_reserved_port (lines 165-168), called at line 293
ReleaseReservedPort(port) == reserved_ports \ {port}

WorkerRelease(id) ==
    /\ worker[id] = "w_release"
    /\ lock = 0
    /\ reserved_ports' = ReleaseReservedPort(forward_info[id].local_port)
    /\ worker' = [worker EXCEPT ![id] = "w_done"]
    /\ UNCHANGED <<poolvars, sweepvars, cmdvars, loginvars, taskvars, forwards, forward_info, forward_counter, lock,
                   forward_threads, forward_processes, process, callers,
                   os_busy, stop_returned, last_call, auto_ids>>

\* ------------------------------------------------------------ environment
\* the child ssh process exits by itself
ProcessExit(id) ==
    /\ process[id] = "alive"
    /\ process' = [process EXCEPT ![id] = "exited"]
    /\ UNCHANGED <<poolvars, sweepvars, cmdvars, loginvars, taskvars, forwards, forward_info, forward_counter, lock,
                   reserved_ports, forward_threads, forward_processes, worker,
                   callers, os_busy, stop_returned, last_call, auto_ids>>

\* other processes of the machine bind and free ports
EnvBind ==
    /\ \E B \in OsBusySets : B # os_busy /\ os_busy' = B
    /\ UNCHANGED <<poolvars, sweepvars, cmdvars, loginvars, taskvars, forwards, forward_info, forward_counter, lock,
                   reserved_ports, forward_threads, forward_processes, process,
                   worker, callers, stop_returned, last_call, auto_ids>>

\* ------------------------------------------------ stop_forward / delete
IdArgs == 1 .. MaxForwards

\* mutant: stop_forward returns True whatever it found
StopReturn_True(c, id, ret) ==
    /\ lock' = 0
    /\ IF callers[c].op = "delete"
       THEN /\ forwards' = forwards \ {id}
            /\ forward_threads' = forward_threads \ {id}
            /\ Return(c, "delete", TRUE, id, None, FALSE)
       ELSE /\ Return(c, "stop", TRUE, id, None, FALSE)
            /\ UNCHANGED <<forwards, forward_threads>>

\* stop_forward returns ret.  Called by a request thread, the thread leaves
\* the lock and is done.  Called from delete_forward (line 353), the caller
\* goes on with lines 356-367: it removes the descriptor and its thread entry,
\* leaves the lock and returns True.
StopReturn(c, id, ret) ==
    /\ lock' = 0
    /\ IF callers[c].op = "delete"
       THEN /\ forwards' = forwards \ {id}
            /\ forward_threads' = forward_threads \ {id}
            /\ Return(c, "delete", TRUE, id, None, FALSE)
       ELSE /\ Return(c, "stop", ret, id, None, FALSE)
            /\ UNCHANGED <<forwards, forward_threads>>

\* delete_forward takes the lock (line 348); for a known id it calls
\* stop_forward (line 353) still holding it, for an unknown id it returns False
DeleteForward(c) ==
    /\ callers[c].pc = "idle"
    /\ lock = 0
    /\ \E id \in IdArgs :
          IF id \in forwards
          THEN /\ lock' = c
               /\ callers' = [callers EXCEPT ![c] =
                                  [IdleCaller EXCEPT !.pc = "stop", !.op = "delete",
                                                     !.fid = id]]
               /\ UNCHANGED last_call
          ELSE /\ lock' = 0
               /\ Return(c, "delete", FALSE, id, None, FALSE)
    /\ UNCHANGED <<poolvars, sweepvars, cmdvars, loginvars, taskvars, forwards, forward_info, forward_counter,
                   reserved_ports, forward_threads, forward_processes, process,
                   worker, os_busy, stop_returned, auto_ids>>

\* mutant: stop_forward goes on to line 303 whatever the status is
StopForward_AnyStatus(c) ==
    /\ callers[c].pc \in {"idle", "stop"}
    /\ lock = 0
    /\ \E id \in IF callers[c].pc = "stop" THEN {callers[c].fid} ELSE IdArgs :
          IF id \notin forwards
          THEN StopReturn(c, id, FALSE)
          ELSE /\ lock' = c
               /\ callers' = [callers EXCEPT ![c] =
                                  [IdleCaller EXCEPT
                                      !.pc = "s_set",
                                      !.op = IF callers[c].pc = "stop"
                                             THEN "delete" ELSE "stop",
                                      !.fid = id]]
               /\ UNCHANGED <<forwards, forward_threads, last_call>>
    /\ UNCHANGED <<poolvars, sweepvars, cmdvars, loginvars, taskvars, forward_info, forward_counter, reserved_ports,
                   forward_processes, process, worker, os_busy, stop_returned,
                   auto_ids>>

\* stop_forward takes the lock (line 297), which is not reentrant: a request
\* thread calls it with some id, or delete_forward has called it (pc = "stop")
\* with its own.  It returns False for an unknown id (298-299), True for a
\* tunnel that is not running (302, 329), and otherwise goes on to line 303
StopForward(c) ==
    /\ callers[c].pc \in {"idle", "stop"}
    /\ lock = 0
    /\ \E id \in IF callers[c].pc = "stop" THEN {callers[c].fid} ELSE IdArgs :
          IF id \notin forwards
          THEN StopReturn(c, id, FALSE)
          ELSE IF forward_info[id].status = "running"
               THEN /\ lock' = c
                    /\ callers' = [callers EXCEPT ![c] =
                                       [IdleCaller EXCEPT
                                           !.pc = "s_set",
                                           !.op = IF callers[c].pc = "stop"
                                                  THEN "delete" ELSE "stop",
                                           !.fid = id]]
                    /\ UNCHANGED <<forwards, forward_threads, last_call>>
               ELSE StopReturn(c, id, TRUE)
    /\ UNCHANGED <<poolvars, sweepvars, cmdvars, loginvars, taskvars, forward_info, forward_counter, reserved_ports,
                   forward_processes, process, worker, os_busy, stop_returned,
                   auto_ids>>

\* line 303
StopSet(c) ==
    /\ callers[c].pc = "s_set"
    /\ forward_info' = SetInfo(callers[c].fid, "status", "stopping")
    /\ callers' = [callers EXCEPT ![c].pc = "s_term"]
    /\ UNCHANGED <<poolvars, sweepvars, cmdvars, loginvars, taskvars, forwards, forward_counter, lock, reserved_ports,
                   forward_threads, forward_processes, process, worker,
                   os_busy, stop_returned, last_call, auto_ids>>

\* lines 306-317, holding the lock: terminate the registered child if it still
\* runs (wait 3 s, then kill), and sleep 1 s if the worker thread is alive
StopTerminate(c) ==
    /\ callers[c].pc = "s_term"
    /\ process' = IF callers[c].fid \in forward_processes
                  THEN [process EXCEPT ![callers[c].fid] = "exited"]
                  ELSE process
    /\ callers' = [callers EXCEPT ![c].pc = "s_stopped"]
    /\ UNCHANGED <<poolvars, sweepvars, cmdvars, loginvars, taskvars, forwards, forward_info, forward_counter, lock,
                   reserved_ports, forward_threads, forward_processes, worker,
                   os_busy, stop_returned, last_call, auto_ids>>

\* lines 319-329: status 'stopped', stopped_at, return True
StopFinish(c) ==
    /\ callers[c].pc = "s_stopped"
    /\ forward_info' = [forward_info EXCEPT ![callers[c].fid].status = "stopped",
                                            ![callers[c].fid].stopped_at = TRUE]
    /\ stop_returned' = stop_returned \cup {callers[c].fid}
    /\ StopReturn(c, callers[c].fid, TRUE)
    /\ UNCHANGED <<poolvars, sweepvars, cmdvars, loginvars, taskvars, forward_counter, reserved_ports, forward_processes,
                   process, worker, os_busy, auto_ids>>

\* ------------------------------------------------------------------- spec
Next ==
    \/ \E c \in Callers : CreateForward(c)
    \/ \E c \in Callers : ScanRetry(c)
    \/ \E c \in Callers : StopForward(c)
    \/ \E c \in Callers : StopSet(c)
    \/ \E c \in Callers : StopTerminate(c)
    \/ \E c \in Callers : StopFinish(c)
    \/ \E c \in Callers : DeleteForward(c)
    \/ \E id \in Ids : WorkerStart(id)
    \/ \E id \in Ids : WorkerSpawn(id)
    \/ \E id \in Ids : WorkerLoop(id)
    \/ \E id \in Ids : WorkerPoll(id)
    \/ \E id \in Ids : WorkerTerminate(id)
    \/ \E id \in Ids : WorkerFinally(id)
    \/ \E id \in Ids : WorkerSetStopped(id)
    \/ \E id \in Ids : WorkerRelease(id)
    \/ \E id \in Ids : ProcessExit(id)
    \/ EnvBind

Spec == Init /\ [][Next]_vars

\* ------------------------------------------------------ SSHConnectionPool
\* the failure result of execute_command (lines 492-497 and 510-515); cause
\* says which step failed: no client, a timeout, or an error of the transport
Failure(cause) ==
    [kind |-> "result", success |-> FALSE, exit_code |-> -1,
     stdout |-> "empty", stderr |-> "cause", cause |-> cause]

\* the transport check of lines 375-377, and a client's close()
Alive(h) == clients[h].active /\ ~clients[h].closed

\* mutant: the probe fails whatever the state of the client
ProbeOk_Never(h) == FALSE

\* the liveness probe (lines 375-383): the transport is active and the server
\* answers 'echo test' within its timeout
ProbeOk(h) == Alive(h) /\ clients[h].answers

\* a thread calls one of the methods ops for one of the names
PoolCallOf(t, ops, names) ==
    /\ pool_threads[t].pc = "idle"
    /\ \E op \in ops, name \in names, cmd \in {"ends", "hangs"} :
          pool_threads' = [pool_threads EXCEPT ![t] =
              [IdlePoolThread EXCEPT !.pc = IF op = "get_client" THEN "create" ELSE "lock",
                                     !.op = op, !.name = name,
                                     !.cmd = IF op = "execute_command" THEN cmd
                                             ELSE "none"]]
    /\ UNCHANGED <<servers, connections, clients, pool_lock, standalone_clients,
                   pfvars, sweepvars, cmdvars, loginvars, taskvars>>

\* a thread calls execute_command, get_connection or get_client; the command
\* of an execute_command ends by itself or never does
PoolCall(t) ==
    PoolCallOf(t, {"execute_command", "get_connection", "get_client"}, PoolArgs)

\* mutant: the lock is taken but the pooled client is not looked up
GetConnectionLock_NoLookup(t) ==
    /\ pool_threads[t].pc = "lock"
    /\ pool_lock = 0
    /\ pool_lock' = t
    /\ pool_threads' = [pool_threads EXCEPT ![t].pc = "create"]
    /\ UNCHANGED <<servers, connections, clients, standalone_clients, pfvars, sweepvars, cmdvars, loginvars, taskvars>>

\* get_connection takes the pool lock (line 369) and looks the name up (371)
GetConnectionLock(t) ==
    /\ pool_threads[t].pc = "lock"
    /\ pool_lock = 0
    /\ pool_lock' = t
    /\ pool_threads' = [pool_threads EXCEPT ![t].pc =
                           IF pool_threads[t].name \in DOMAIN connections
                           THEN "probe" ELSE "create"]
    /\ UNCHANGED <<servers, connections, clients, standalone_clients, pfvars, sweepvars, cmdvars, loginvars, taskvars>>

\* the method returns ret to its caller
PoolReturn(t, client, ret) ==
    pool_threads' = [pool_threads EXCEPT ![t].pc = "idle", ![t].client = client,
                                         ![t].ret = ret]

\* get_connection returns a client (or None) at line 384 or 398: the lock is
\* left; execute_command goes on with it (lines 490-499)
GetConnectionReturn(t, client) ==
    /\ pool_lock' = 0
    /\ IF pool_threads[t].op = "execute_command"
       THEN IF client # 0
            THEN pool_threads' = [pool_threads EXCEPT ![t].pc = "run",
                                                      ![t].client = client]
            ELSE PoolReturn(t, 0, Failure("no_handle"))
       ELSE PoolReturn(t, client, [NoReturn EXCEPT !.kind =
                                      IF client # 0 THEN "client" ELSE "None"])

\* mutant: the entry of the stale client is left in the map
Without_Kept(f, k) == f

\* Remove a key from a function
Without(f, k) == [x \in DOMAIN f \ {k} |-> f[x]]

\* lines 372-392, holding the lock: the liveness probe of the pooled client.
\* When it fails the client is closed and its entry deleted, and the call
\* goes on to create a connection
ProbeConnection(t) ==
    /\ pool_threads[t].pc = "probe"
    /\ LET name == pool_threads[t].name
           h == connections[name]
       IN IF ProbeOk(h)
          THEN /\ GetConnectionReturn(t, h)
               /\ UNCHANGED <<connections, clients>>
          ELSE /\ clients' = [clients EXCEPT ![h].closed = TRUE, ![h].active = FALSE]
               /\ connections' = Without(connections, name)
               /\ pool_threads' = [pool_threads EXCEPT ![t].pc = "create",
                                                       ![t].stale = h]
               /\ UNCHANGED pool_lock
    /\ UNCHANGED <<servers, standalone_clients, pfvars, sweepvars, cmdvars, loginvars, taskvars>>

\* what _create_connection does for a name (lines 326-365): it raises
\* ValueError for a name that is not stored (328-329, outside the try), returns
\* None when the config has neither key (352-357) or connect fails, else a client
CreateOutcomes(name) ==
    IF name \notin DOMAIN servers THEN {"raise"}
    ELSE IF servers[name].key_file = "absent" /\ servers[name].password = "absent"
         THEN {"None"}
    ELSE IF Len(clients) < MaxClients THEN {"client", "None"}
    ELSE {"None"}

\* a client connected to the host of the name's config (lines 342-359)
NewClient(name) == [server |-> name, closed |-> FALSE, active |-> TRUE,
                    answers |-> TRUE, host |-> servers[name].host]

\* mutant: the standalone client is not tracked
Track_Forgotten(h) == standalone_clients

\* self._standalone_clients.add(client), line 410
Track(h) == standalone_clients \cup {h}

\* _create_connection, called by get_connection holding the lock (line 395)
\* or by get_client without it (line 407)
CreateConnection(t) ==
    /\ pool_threads[t].pc = "create"
    /\ LET name == pool_threads[t].name
           h == Len(clients) + 1
       IN \E outcome \in CreateOutcomes(name) :
             IF outcome = "raise"
             THEN \* the exception leaves get_connection (the with statement
                  \* frees the lock), execute_command (line 490 is outside its
                  \* try) and get_client
                  /\ PoolReturn(t, 0, [NoReturn EXCEPT !.kind = "raised"])
                  /\ pool_lock' = IF pool_lock = t THEN 0 ELSE pool_lock
                  /\ UNCHANGED <<connections, clients, standalone_clients>>
             ELSE IF pool_threads[t].op = "get_client"
             THEN /\ clients' = IF outcome = "client"
                                THEN Append(clients, NewClient(name)) ELSE clients
                  /\ standalone_clients' = IF outcome = "client"
                                           THEN Track(h)
                                           ELSE standalone_clients
                  /\ PoolReturn(t, IF outcome = "client" THEN h ELSE 0,
                                [NoReturn EXCEPT !.kind = outcome])
                  /\ UNCHANGED <<connections, pool_lock>>
             ELSE /\ clients' = IF outcome = "client"
                                THEN Append(clients, NewClient(name)) ELSE clients
                  /\ connections' = IF outcome = "client"
                                    THEN (name :> h) @@ connections ELSE connections
                  /\ GetConnectionReturn(t, IF outcome = "client" THEN h ELSE 0)
                  /\ UNCHANGED standalone_clients
    /\ UNCHANGED <<servers, pfvars, sweepvars, cmdvars, loginvars, taskvars>>

\* line 500: client.exec_command(command, timeout=timeout) opens a channel
\* and sends the command.  It raises on a closed or dead transport and when
\* the server does not answer within the timeout; the except clause (509-515)
\* makes the failure result
ExecCommand(t) ==
    /\ pool_threads[t].pc = "run"
    /\ LET h == pool_threads[t].client IN
          IF Alive(h) /\ clients[h].answers
          THEN pool_threads' = [pool_threads EXCEPT ![t].pc = "wait"]
          ELSE PoolReturn(t, h, Failure(IF Alive(h) THEN "deadline" ELSE "transport"))
    /\ UNCHANGED <<servers, connections, clients, pool_lock, standalone_clients,
                   pfvars, sweepvars, cmdvars, loginvars, taskvars>>

\* lines 501-508: recv_exit_status() waits, without a timeout, until the
\* server sends the exit status or the channel is closed.
\*  - the command ends: the exit status arrives and both streams are read to
\*    the end (a read that times out raises: failure result);
\*  - the channel is closed under it (the transport died, or another thread's
\*    probe closed the client): recv_exit_status returns -1 without raising
\*    and the reads return what had arrived, so the result carries exit_code
\*    -1 with the partial output;
\*  - otherwise the call goes on waiting.
RecvExitStatus(t) ==
    /\ pool_threads[t].pc = "wait"
    /\ LET h == pool_threads[t].client IN
          \/ /\ ~Alive(h)
             /\ PoolReturn(t, h, [kind |-> "result", success |-> FALSE,
                                  exit_code |-> -1, stdout |-> "partial",
                                  stderr |-> "remote", cause |-> "transport"])
          \/ /\ Alive(h) /\ clients[h].answers
             /\ pool_threads[t].cmd = "ends"
             /\ \E exit_code \in {0, 1}, read_ok \in BOOLEAN :
                   IF read_ok
                   THEN PoolReturn(t, h, [kind |-> "result",
                                          success |-> (exit_code = 0),
                                          exit_code |-> exit_code,
                                          stdout |-> "full", stderr |-> "remote",
                                          cause |-> "none"])
                   ELSE PoolReturn(t, h, Failure("deadline"))
    /\ UNCHANGED <<servers, connections, clients, pool_lock, standalone_clients,
                   pfvars, sweepvars, cmdvars, loginvars, taskvars>>

\* the connection of a client breaks
TransportDies(h) ==
    /\ clients[h].active
    /\ clients' = [clients EXCEPT ![h].active = FALSE]
    /\ UNCHANGED <<servers, connections, pool_lock, standalone_clients,
                   pool_threads, pfvars, sweepvars, cmdvars, loginvars, taskvars>>

\* the server of a client stops answering while the transport still counts
\* as active (a half-dead connection)
TransportStalls(h) ==
    /\ Alive(h) /\ clients[h].answers
    /\ clients' = [clients EXCEPT ![h].answers = FALSE]
    /\ UNCHANGED <<servers, connections, pool_lock, standalone_clients,
                   pool_threads, pfvars, sweepvars, cmdvars, loginvars, taskvars>>

PoolNext ==
    \/ \E t \in PoolThreads : PoolCall(t)
    \/ \E t \in PoolThreads : GetConnectionLock(t)
    \/ \E t \in PoolThreads : ProbeConnection(t)
    \/ \E t \in PoolThreads : CreateConnection(t)
    \/ \E t \in PoolThreads : ExecCommand(t)
    \/ \E t \in PoolThreads : RecvExitStatus(t)
    \/ \E h \in DOMAIN clients : TransportDies(h)
    \/ \E h \in DOMAIN clients : TransportStalls(h)

PoolSpec == Init /\ [][PoolNext]_vars

\* the worker threads run; a thread waiting for self.lock gets it in the end
WorkerNext(id) ==
    \/ WorkerStart(id) \/ WorkerSpawn(id) \/ WorkerLoop(id) \/ WorkerPoll(id)
    \/ WorkerTerminate(id) \/ WorkerFinally(id) \/ WorkerSetStopped(id)

\* a request thread inside a call runs on: the scans of create_forward, the
\* steps of stop_forward, and the stop_forward that delete_forward calls
CallerNext(c) ==
    \/ ScanRetry(c) \/ StopSet(c) \/ StopTerminate(c) \/ StopFinish(c)
    \/ (callers[c].pc = "stop" /\ StopForward(c))

FairSpec ==
    /\ Spec
    /\ \A id \in 1 .. MaxForwards :
          /\ WF_vars(id \in Ids /\ WorkerNext(id))
          /\ SF_vars(id \in Ids /\ WorkerRelease(id))
    /\ \A c \in Callers : SF_vars(CallerNext(c))

\* ------------------------------------------- the worker's child command
\* the elements of a sequence
Range(seq) == {seq[k] : k \in DOMAIN seq}

\* server configs and tunnels the command is built for
CommandInputs ==
    [key_file : {"absent", "", "/keys/id_rsa"},
     password : {"absent", "", "secret"},
     port : {0, DEFAULT_SSH_PORT, 2222},
     local_port : AutoPorts,
     remote_port : {TENSORBOARD, JUPYTER}]

\* lines 213-223: the ssh command of a local forward
SshCommand(cfg) ==
    <<"ssh", "-N",
      "-L", ToString(cfg.local_port) \o ":localhost:" \o ToString(cfg.remote_port),
      "-o", "StrictHostKeyChecking=accept-new",
      "-o", "ServerAliveInterval=60",
      "-o", "ServerAliveCountMax=3",
      "-o", "BatchMode=yes",
      "-p", ToString(IF cfg.port = 0 THEN DEFAULT_SSH_PORT ELSE cfg.port),
      "user@host">>

\* mutant: the password is handed to sshpass as an argument
ChildCommand_PasswordArg(cfg) ==
    IF cfg.key_file \notin {"absent", ""}
    THEN [built |-> TRUE, raised |-> FALSE,
          ssh_command |-> SshCommand(cfg) \o <<"-i", cfg.key_file>>,
          SSHPASS |-> "unset"]
    ELSE IF cfg.password \notin {"absent", ""}
    THEN [built |-> TRUE, raised |-> FALSE,
          ssh_command |-> <<"sshpass", "-p", cfg.password>> \o SshCommand(cfg),
          SSHPASS |-> "unset"]
    ELSE [built |-> TRUE, raised |-> TRUE, ssh_command |-> <<>>, SSHPASS |-> "unset"]

\* lines 226-243: the command and the SSHPASS variable of the child's
\* environment; a key that is present and not empty is used, else a password
\* that is present and not empty, else the worker raises
ChildCommand(cfg) ==
    IF cfg.key_file \notin {"absent", ""}
    THEN [built |-> TRUE, raised |-> FALSE,
          ssh_command |-> SshCommand(cfg) \o <<"-i", cfg.key_file>>,
          SSHPASS |-> "unset"]
    ELSE IF cfg.password \notin {"absent", ""}
    THEN [built |-> TRUE, raised |-> FALSE,
          ssh_command |-> <<"sshpass", "-e">> \o SshCommand(cfg),
          SSHPASS |-> cfg.password]
    ELSE [built |-> TRUE, raised |-> TRUE, ssh_command |-> <<>>, SSHPASS |-> "unset"]

\* a worker reads its tunnel's ports and its server's config (lines 195-206)
ReadConfig ==
    /\ \E cfg \in CommandInputs : build_input' = cfg
    /\ build_output' = NotBuilt
    /\ UNCHANGED <<poolvars, pfvars, sweepvars, loginvars, taskvars>>

\* it builds the command it hands to Popen (lines 213-249)
BuildCommand ==
    /\ ~build_output.built
    /\ build_output' = ChildCommand(build_input)
    /\ UNCHANGED <<poolvars, pfvars, sweepvars, loginvars, taskvars, build_input>>

CommandNext == ReadConfig \/ BuildCommand

CommandSpec == Init /\ [][CommandNext]_vars

\* a thread inside a call of the pool runs on, and a thread waiting for the
\* pool's lock gets it in the end; the servers and the network are not
\* obliged to anything
PoolThreadNext(t) ==
    \/ ProbeConnection(t) \/ CreateConnection(t) \/ ExecCommand(t)
    \/ RecvExitStatus(t)

PoolFairSpec ==
    /\ PoolSpec
    /\ \A t \in PoolThreads :
          /\ WF_vars(PoolThreadNext(t))
          /\ SF_vars(GetConnectionLock(t))

\* --------------------------------------- the server store and the sweeper
\* Every method below runs its whole body under "with self.lock": one step,
\* taken when no thread holds the lock.  A call that returns early (unknown or
\* existing name, missing credentials) changes nothing.

\* mutant: the clients are dropped without being closed
CloseClients_Leak(hs) == clients

\* client.close() for each client of hs (lines 78-82, 156-160, 185-189,
\* 228-232, 454-458, 464-471, 524-542)
CloseClients(hs) ==
    [h \in DOMAIN clients |->
        IF h \in hs THEN [clients[h] EXCEPT !.closed = TRUE, !.active = FALSE]
        ELSE clients[h]]

\* the clients the map holds
Pooled == {connections[name] : name \in DOMAIN connections}

\* reload_servers (lines 74-84): close every pooled client, clear the map
ReloadServers ==
    /\ pool_lock = 0
    /\ connections # <<>>
    /\ clients' = CloseClients(Pooled)
    /\ connections' = <<>>
    /\ UNCHANGED <<servers, pool_lock, standalone_clients, pool_threads,
                   pfvars, sweepvars, cmdvars, loginvars, taskvars>>

\* the values server_config.get(field) that "not value" rejects: None, ''
Given(value) == value \notin {"absent", "empty"}

\* the success field of the returned dict: _save_servers() wrote the file
Result(saved) == IF saved THEN "ok" ELSE "failed"

\* add_server (lines 86-124), host and username given: the name must be new
\* and a password or a key_file given; the config is stored as it came, and
\* taken out again when the file cannot be written
AddServer(name, cfg, saved) ==
    /\ pool_lock = 0
    /\ name \notin DOMAIN servers
    /\ Given(cfg.password) \/ Given(cfg.key_file)
    /\ servers' = IF saved THEN (name :> cfg) @@ servers ELSE servers
    /\ last_store' = Result(saved)
    /\ UNCHANGED <<connections, clients, pool_lock, standalone_clients,
                   pool_threads, pfvars, cmdvars, loginvars, taskvars, cleanup_running, sweeper, closer, close_all_returned>>

\* lines 147-150: the fields of the update that are not None or '' replace
\* those of the old config
Merged(old_config, cfg) ==
    [key_file |-> IF Given(cfg.key_file) THEN cfg.key_file ELSE old_config.key_file,
     password |-> IF Given(cfg.password) THEN cfg.password ELSE old_config.password,
     host |-> IF Given(cfg.host) THEN cfg.host ELSE old_config.host]

\* update_server (lines 126-169): on a change of name the old entry goes and
\* the old name's pooled client is closed and removed
UpdateServer(original_name, new_name, cfg, saved) ==
    /\ pool_lock = 0
    /\ original_name \in DOMAIN servers
    /\ ~(new_name # original_name /\ new_name \in DOMAIN servers)
    /\ servers' = (new_name :> Merged(servers[original_name], cfg))
                      @@ Without(servers, original_name)
    /\ IF new_name # original_name /\ original_name \in DOMAIN connections
       THEN /\ clients' = CloseClients({connections[original_name]})
            /\ connections' = [x \in DOMAIN connections \ {original_name} |->
                                  connections[x]]
       ELSE UNCHANGED <<connections, clients>>
    /\ last_store' = Result(saved)
    /\ UNCHANGED <<pool_lock, standalone_clients, pool_threads,
                   pfvars, cmdvars, loginvars, taskvars, cleanup_running, sweeper, closer, close_all_returned>>

\* delete_server (lines 171-197): the name's pooled client is closed and
\* removed, then the entry deleted
DeleteServer(server_name, saved) ==
    /\ pool_lock = 0
    /\ server_name \in DOMAIN servers
    /\ IF server_name \in DOMAIN connections
       THEN /\ clients' = CloseClients({connections[server_name]})
            /\ connections' = [x \in DOMAIN connections \ {server_name} |->
                                  connections[x]]
       ELSE UNCHANGED <<connections, clients>>
    /\ servers' = [x \in DOMAIN servers \ {server_name} |-> servers[x]]
    /\ last_store' = Result(saved)
    /\ UNCHANGED <<pool_lock, standalone_clients, pool_threads,
                   pfvars, cmdvars, loginvars, taskvars, cleanup_running, sweeper, closer, close_all_returned>>

\* import_servers (lines 199-280) of a list with one config per name, host
\* and username given.  Mode replace first closes every pooled client and
\* clears the map and the store; a config with neither password nor key_file
\* is skipped; a name already stored is kept in mode merge, replaced else
\* (lines 266-275: its failure to write the file is told apart from that of
\* the other methods)
ImportServers(mode, imported, saved) ==
    /\ pool_lock = 0
    /\ LET kept == IF mode = "replace" THEN <<>> ELSE servers
           accepted == {name \in DOMAIN imported :
                           Given(imported[name].password)
                              \/ Given(imported[name].key_file)}
       IN servers' = [name \in DOMAIN kept \cup accepted |->
                         IF name \in accepted
                            /\ (name \notin DOMAIN kept \/ mode # "merge")
                         THEN imported[name] ELSE kept[name]]
    /\ IF mode = "replace"
       THEN /\ clients' = CloseClients(Pooled)
            /\ connections' = <<>>
       ELSE UNCHANGED <<connections, clients>>
    /\ last_store' = IF saved THEN "ok" ELSE "import_failed"
    /\ UNCHANGED <<pool_lock, standalone_clients, pool_threads,
                   pfvars, cmdvars, loginvars, taskvars, cleanup_running, sweeper, closer, close_all_returned>>

\* _cleanup_loop, line 431: the flag is read at the top of the loop only
SweeperCheck ==
    /\ sweeper.pc = "check"
    /\ sweeper' = [sweeper EXCEPT !.pc = IF cleanup_running THEN "sleep"
                                         ELSE "exited"]
    /\ UNCHANGED <<poolvars, pfvars, cmdvars, loginvars, taskvars, cleanup_running, closer,
                   close_all_returned, last_store>>

\* mutant: every name of the map counts as stale
StaleNames_All == DOMAIN connections

\* lines 445-452: the names whose client has no transport or an inactive one
StaleNames == {name \in DOMAIN connections : ~Alive(connections[name])}

\* time.sleep(300) is over and _cleanup_stale_connections runs (lines
\* 438-477), all of it under the lock: the stale pooled clients are closed
\* and removed, the tracked standalone clients without an active transport
\* are closed
Sweep ==
    /\ sweeper.pc = "sleep"
    /\ pool_lock = 0
    /\ LET stale_servers == StaleNames
           dead == {h \in standalone_clients : ~Alive(h)}
       IN /\ clients' = CloseClients({connections[name] : name \in stale_servers}
                                        \cup dead)
          /\ connections' = [name \in DOMAIN connections \ stale_servers |->
                                connections[name]]
          /\ sweeper' = [pc |-> "check",
                         cleaned_pool |-> Cardinality(stale_servers),
                         cleaned_standalone |-> Cardinality(dead)]
    /\ UNCHANGED <<servers, pool_lock, standalone_clients, pool_threads,
                   pfvars, cmdvars, loginvars, taskvars, cleanup_running, closer, close_all_returned,
                   last_store>>

\* close_all, line 520: the flag is cleared before the lock is taken
CloseAllStart ==
    /\ closer = "idle"
    /\ close_all_returned < MaxCloseAll
    /\ cleanup_running' = FALSE
    /\ closer' = "lock"
    /\ UNCHANGED <<poolvars, pfvars, cmdvars, loginvars, taskvars, sweeper, close_all_returned,
                   last_store>>

\* close_all, lines 522-544: under the lock every pooled client and every
\* tracked standalone client is closed and the map cleared; the call returns
CloseAllLocked ==
    /\ closer = "lock"
    /\ pool_lock = 0
    /\ clients' = CloseClients(Pooled \cup standalone_clients)
    /\ connections' = <<>>
    /\ closer' = "idle"
    /\ close_all_returned' = close_all_returned + 1
    /\ UNCHANGED <<servers, pool_lock, standalone_clients, pool_threads,
                   pfvars, cmdvars, loginvars, taskvars, cleanup_running, sweeper, last_store>>

\* the pool with its sweeper, close_all and the methods that change the
\* store: threads call get_connection and get_client for a stored name and
\* for one that is stored after a rename
AdminNames == {"gpu_key", "ghost"}
AdminThreads == 1 .. NumAdminThreads
RenameOnly == [ServerConfig("absent", "absent") EXCEPT !.host = "absent"]

AdminNext ==
    \/ \E t \in AdminThreads :
          PoolCallOf(t, {"get_connection", "get_client"}, AdminNames)
    \/ \E t \in AdminThreads : GetConnectionLock(t)
    \/ \E t \in AdminThreads : ProbeConnection(t)
    \/ \E t \in AdminThreads : CreateConnection(t)
    \/ \E h \in DOMAIN clients : TransportDies(h)
    \/ ReloadServers
    \/ DeleteServer("gpu_key", TRUE)
    \/ \E original_name \in AdminNames, new_name \in AdminNames :
          original_name # new_name /\ UpdateServer(original_name, new_name, RenameOnly, TRUE)
    \/ ImportServers("replace", "gpu_key" :> ServerConfig("set", "absent"), TRUE)
    \/ SweeperCheck
    \/ Sweep
    \/ CloseAllStart
    \/ CloseAllLocked

AdminSpec == Init /\ [][AdminNext]_vars

\* the same, the threads calling execute_command
ExecNext ==
    \/ \E t \in AdminThreads : PoolCallOf(t, {"execute_command"}, AdminNames)
    \/ \E t \in AdminThreads : GetConnectionLock(t)
    \/ \E t \in AdminThreads : ProbeConnection(t)
    \/ \E t \in AdminThreads : CreateConnection(t)
    \/ \E t \in AdminThreads : ExecCommand(t)
    \/ \E t \in AdminThreads : RecvExitStatus(t)
    \/ \E h \in DOMAIN clients : TransportDies(h)
    \/ ReloadServers
    \/ DeleteServer("gpu_key", TRUE)
    \/ \E original_name \in AdminNames, new_name \in AdminNames :
          original_name # new_name /\ UpdateServer(original_name, new_name, RenameOnly, TRUE)
    \/ ImportServers("replace", "gpu_key" :> ServerConfig("set", "absent"), TRUE)
    \/ SweeperCheck
    \/ Sweep
    \/ CloseAllStart
    \/ CloseAllLocked

ExecSpec == Init /\ [][ExecNext]_vars

\* the pool while the descriptor of a stored name is changed under the same
\* name: update_server and import_servers in mode overwrite with another host
MovedTo(host) == [ServerConfig("absent", "absent") EXCEPT !.host = host]
ImportedAt(host) == [ServerConfig("absent", "set") EXCEPT !.host = host]

DescriptorNext ==
    \/ \E t \in AdminThreads : PoolCallOf(t, {"get_connection"}, {"gpu_key"})
    \/ \E t \in AdminThreads : GetConnectionLock(t)
    \/ \E t \in AdminThreads : ProbeConnection(t)
    \/ \E t \in AdminThreads : CreateConnection(t)
    \/ \E h \in DOMAIN clients : TransportDies(h)
    \/ \E h \in DOMAIN clients : TransportStalls(h)
    \/ \E host \in {"host_a", "host_b"} :
          UpdateServer("gpu_key", "gpu_key", MovedTo(host), TRUE)
    \/ \E host \in {"host_a", "host_b"} :
          ImportServers("overwrite", "gpu_key" :> ImportedAt(host), TRUE)

DescriptorSpec == Init /\ [][DescriptorNext]_vars

\* the store's methods with configs as the API hands them in, each field
\* absent, empty or set, for stored names and a new one, the file being
\* written or not; beside them a thread calling get_connection
StoreNames == {"gpu_key", "gpu_pw", "gpu_new"}
StoreConfigs == {ServerConfig(key_file, password) :
                    key_file \in {"absent", "empty", "set"},
                    password \in {"absent", "empty", "set"}}

StoreNext ==
    \/ \E name \in StoreNames, cfg \in StoreConfigs, saved \in BOOLEAN :
          AddServer(name, cfg, saved)
    \/ \E original_name \in StoreNames, new_name \in StoreNames,
          cfg \in StoreConfigs, saved \in BOOLEAN :
          UpdateServer(original_name, new_name, cfg, saved)
    \/ \E server_name \in StoreNames, saved \in BOOLEAN :
          DeleteServer(server_name, saved)
    \/ \E mode \in {"merge", "overwrite", "replace"}, name \in StoreNames,
          cfg \in StoreConfigs, saved \in BOOLEAN :
          ImportServers(mode, name :> cfg, saved)
    \/ \E t \in AdminThreads : PoolCallOf(t, {"get_connection"}, {"gpu_key"})
    \/ \E t \in AdminThreads : GetConnectionLock(t)
    \/ \E t \in AdminThreads : ProbeConnection(t)
    \/ \E t \in AdminThreads : CreateConnection(t)
    \/ \E h \in DOMAIN clients : TransportDies(h)

StoreSpec == Init /\ [][StoreNext]_vars

\* ------------------------------------------------ LoginProtectionService
\* dict[key] = value and del dict[key]
Put(dict, key, value) ==
    [k \in DOMAIN dict \cup {key} |-> IF k = key THEN value ELSE dict[k]]
Drop(dict, key) == [k \in DOMAIN dict \ {key} |-> dict[k]]

\* self._attempts[ip] and self._lockout_counts[ip] of the two defaultdicts
Attempt(ip) == IF ip \in DOMAIN attempts THEN attempts[ip] ELSE NewAttempt
LockoutCount(ip) == IF ip \in DOMAIN lockout_counts THEN lockout_counts[ip] ELSE 0

Min(a, b) == IF a <= b THEN a ELSE b

\* lockout_multiplier ** n (line 152): a float power, which raises
\* OverflowError when the result leaves the float range
PowerOverflows(n) == n >= FLOAT_MAX_EXP

\* min(base_lockout_seconds * multiplier ** (k - 1), max_lockout_seconds),
\* lines 151-154, for a power inside the float range.  From 2 ** 12 on the
\* product is above max_lockout_seconds whatever the power, so the power is
\* cut there to stay inside the integers of the checker.
LockoutSeconds(k) ==
    Min(base_lockout_seconds * lockout_multiplier ^ Min(k - 1, 12), max_lockout_seconds)

\* the failures of an IP since its last lockout, successful login or unlock:
\* the times of the last max_attempts of them
FailTimes(ip) == IF ip \in DOMAIN fail_times THEN fail_times[ip] ELSE <<>>
Remember(ip) ==
    LET all == Append(FailTimes(ip), now)
    IN  IF Len(all) > max_attempts THEN Tail(all) ELSE all

Returned(op, ip) == [NoLogin EXCEPT !.op = op, !.ip = ip, !.at = now]

\* check_rate_limit, lines 95-118: refuse while locked_until is ahead; else
\* forget a window that has run out, and allow
RateLimit(ip) ==
    LET attempt == Attempt(ip)
    IN  /\ IF attempt.locked_until > now
           THEN /\ attempts' = Put(attempts, ip, attempt)
                /\ last_login' = Returned("check_rate_limit", ip)
           ELSE /\ attempts' = Put(attempts, ip,
                       IF attempt.first_attempt > 0 /\ now - attempt.first_attempt > Window
                       THEN [attempt EXCEPT !.count = 0, !.first_attempt = 0]
                       ELSE attempt)
                /\ last_login' = [Returned("check_rate_limit", ip) EXCEPT !.allowed = TRUE]
        /\ UNCHANGED <<lockout_counts, fail_times>>

\* record_failed_attempt, lines 130-172.  bound caps the lockouts of one IP.
RecordFailed(ip, bound) ==
    LET attempt == Attempt(ip)
        counted == IF attempt.first_attempt = 0 \/ now - attempt.first_attempt > Window
                   THEN [attempt EXCEPT !.first_attempt = now, !.count = 1]
                   ELSE [attempt EXCEPT !.count = @ + 1]
        stamped == [counted EXCEPT !.last_attempt = now]
        k == LockoutCount(ip) + 1
    IN  /\ LockoutCount(ip) < bound
        /\ IF stamped.count >= max_attempts
           THEN /\ lockout_counts' = Put(lockout_counts, ip, k)
                /\ IF PowerOverflows(k - 1)
                   THEN \* the exception leaves the method after line 150
                        /\ attempts' = Put(attempts, ip, stamped)
                        /\ fail_times' = Put(fail_times, ip, Remember(ip))
                        /\ last_login' = [Returned("record_failed_attempt", ip)
                                            EXCEPT !.raised = TRUE, !.lockout_count = k]
                   ELSE /\ attempts' = Put(attempts, ip,
                               [stamped EXCEPT
                                   !.locked_until = now + LockoutSeconds(k) \div TimeUnit,
                                   !.count = 0])
                        /\ fail_times' = Put(fail_times, ip, <<>>)
                        /\ last_login' = [Returned("record_failed_attempt", ip)
                                            EXCEPT !.locked = TRUE,
                                                   !.lockout_seconds = LockoutSeconds(k),
                                                   !.lockout_count = k]
           ELSE /\ attempts' = Put(attempts, ip, stamped)
                /\ fail_times' = Put(fail_times, ip, Remember(ip))
                /\ last_login' = Returned("record_failed_attempt", ip)
                /\ UNCHANGED lockout_counts

\* del self._attempts[ip]; del self._lockout_counts[ip]
Forget(ip) ==
    /\ attempts' = Drop(attempts, ip)
    /\ lockout_counts' = Drop(lockout_counts, ip)

\* record_successful_login, lines 181-186 (reset_on_success is True)
RecordSuccess(ip) ==
    /\ Forget(ip)
    /\ fail_times' = Drop(fail_times, ip)
    /\ last_login' = Returned("record_successful_login", ip)

\* ---- the service's methods, called one after the other
CheckRateLimit(ip) ==
    /\ RateLimit(ip)
    /\ UNCHANGED <<poolvars, pfvars, sweepvars, cmdvars, taskvars, now, requests>>

RecordFailedAttempt(ip, bound) ==
    /\ RecordFailed(ip, bound)
    /\ UNCHANGED <<poolvars, pfvars, sweepvars, cmdvars, taskvars, now, requests>>

RecordSuccessfulLogin(ip) ==
    /\ ip \in DOMAIN attempts
    /\ RecordSuccess(ip)
    /\ UNCHANGED <<poolvars, pfvars, sweepvars, cmdvars, taskvars, now, requests>>

\* unlock, lines 249-254
Unlock(ip) ==
    /\ ip \in DOMAIN attempts
    /\ Forget(ip)
    /\ fail_times' = Drop(fail_times, ip)
    /\ last_login' = Returned("unlock", ip)
    /\ UNCHANGED <<poolvars, pfvars, sweepvars, cmdvars, taskvars, now, requests>>

\* _cleanup_expired, lines 69-81: the records whose last failure is older
\* than the window and whose lockout is over
Expired ==
    {ip \in DOMAIN attempts :
        /\ now - attempts[ip].last_attempt > Window
        /\ attempts[ip].locked_until < now}
CleanupExpired ==
    /\ Expired # {}
    /\ attempts' = [ip \in DOMAIN attempts \ Expired |-> attempts[ip]]
    /\ lockout_counts' = [ip \in DOMAIN lockout_counts \ Expired |-> lockout_counts[ip]]
    /\ last_login' = Returned("_cleanup_expired", "none")
    /\ UNCHANGED <<poolvars, pfvars, sweepvars, cmdvars, taskvars, now, requests, fail_times>>

\* time passes
Tick ==
    /\ now < MaxTime
    /\ now' = now + 1
    /\ UNCHANGED <<poolvars, pfvars, sweepvars, cmdvars, taskvars, attempts, lockout_counts,
                   requests, fail_times, last_login>>

GuardNext ==
    \/ \E ip \in IPs : CheckRateLimit(ip)
    \/ \E ip \in IPs : RecordFailedAttempt(ip, MaxLockouts)
    \/ \E ip \in IPs : RecordSuccessfulLogin(ip)
    \/ \E ip \in IPs : Unlock(ip)
    \/ CleanupExpired
    \/ Tick

GuardSpec == Init /\ [][GuardNext]_vars

\* failures recorded in a row, the clock standing still
LockoutNext ==
    \/ \E ip \in IPs : RecordFailedAttempt(ip, MaxLockoutRun)
    \/ \E ip \in IPs : Unlock(ip)

LockoutSpec == Init /\ [][LockoutNext]_vars

\* ---- the admin login of routes/main.py, lines 71-127
\* line 80: check_rate_limit; a refused request is answered 429 at once
LoginCheck(r, ip) ==
    /\ requests[r] = "idle"
    /\ RateLimit(ip)
    /\ requests' = [requests EXCEPT ![r] = IF last_login'.allowed THEN "compare" ELSE "idle"]
    /\ UNCHANGED <<poolvars, pfvars, sweepvars, cmdvars, taskvars, now>>

\* line 98: password == ADMIN_PASSWORD
LoginCompare(r, correct) ==
    /\ requests[r] = "compare"
    /\ requests' = [requests EXCEPT ![r] = IF correct THEN "record_ok" ELSE "record_failed"]
    /\ UNCHANGED <<poolvars, pfvars, sweepvars, cmdvars, taskvars, now, attempts,
                   lockout_counts, fail_times, last_login>>

\* line 100
LoginSucceeded(r, ip) ==
    /\ requests[r] = "record_ok"
    /\ RecordSuccess(ip)
    /\ requests' = [requests EXCEPT ![r] = "idle"]
    /\ UNCHANGED <<poolvars, pfvars, sweepvars, cmdvars, taskvars, now>>

\* line 109
LoginFailed(r, ip) ==
    /\ requests[r] = "record_failed"
    /\ RecordFailed(ip, MaxLockouts)
    /\ requests' = [requests EXCEPT ![r] = "idle"]
    /\ UNCHANGED <<poolvars, pfvars, sweepvars, cmdvars, taskvars, now>>

LoginNext ==
    \/ \E r \in Requests, ip \in IPs : LoginCheck(r, ip)
    \/ \E r \in Requests, correct \in BOOLEAN : LoginCompare(r, correct)
    \/ \E r \in Requests, ip \in IPs : LoginSucceeded(r, ip)
    \/ \E r \in Requests, ip \in IPs : LoginFailed(r, ip)
    \/ Tick

LoginSpec == Init /\ [][LoginNext]_vars

\* ------------------------------------------------------------ TaskMonitor
\* add_task, lines 45-70, for a process task: the id counts up, the task
\* starts in 'running'; notify: notify_emails is not empty; timeout: one is set
AddTask(notify, timeout) ==
    LET task_id == task_counter + 1 IN
    /\ task_counter < NumTasks
    /\ task_counter' = task_id
    /\ tasks' = Put(tasks, task_id, [status |-> "running", notify_emails |-> notify,
                                     timeout |-> timeout])
    /\ pid_alive' = Put(pid_alive, task_id, TRUE)
    /\ notified' = Put(notified, task_id, 0)
    /\ check_outcome' = Put(check_outcome, task_id, "none")
    /\ UNCHANGED <<poolvars, pfvars, sweepvars, cmdvars, loginvars, monitor>>

\* remove_task, lines 74-78
RemoveTask(task_id) ==
    /\ task_id \in DOMAIN tasks
    /\ tasks' = Drop(tasks, task_id)
    /\ UNCHANGED <<poolvars, pfvars, sweepvars, cmdvars, loginvars, task_counter, monitor,
                   notified, pid_alive, check_outcome>>

\* the watched process ends on its server
ProcessExits(task_id) ==
    /\ task_id \in DOMAIN pid_alive
    /\ pid_alive[task_id]
    /\ pid_alive' = [pid_alive EXCEPT ![task_id] = FALSE]
    /\ UNCHANGED <<poolvars, pfvars, sweepvars, cmdvars, loginvars, tasks, task_counter,
                   monitor, notified, check_outcome>>

\* list(self.tasks.keys()): the ids in the order they were added
RECURSIVE KeyList(_)
KeyList(ids) ==
    IF ids = {} THEN <<>>
    ELSE LET first == CHOOSE i \in ids : \A j \in ids : i <= j
         IN  <<first>> \o KeyList(ids \ {first})

\* what ssh_pool.execute_command(server_name, "ps -p {pid} -o pid=") can
\* return (ssh_manager.py lines 490-515): the command ran and printed the pid,
\* or ran and printed nothing (ps leaves with 1); or there was no connection
\* to the server; or exec_command raised (timeout, transport error)
ExecuteResults(task_id) ==
    { [success |-> pid_alive[task_id],
       stdout |-> IF pid_alive[task_id] THEN "pid" ELSE "",
       exit_code |-> IF pid_alive[task_id] THEN 0 ELSE 1, cause |-> "ran"],
      [success |-> FALSE, stdout |-> "", exit_code |-> -1, cause |-> "no_connection"],
      [success |-> FALSE, stdout |-> "", exit_code |-> -1, cause |-> "raised"] }

\* send_task_completion_notification, if there is anyone to notify
Notify(task_id) ==
    IF tasks[task_id].notify_emails
    THEN [notified EXCEPT ![task_id] = @ + 1]
    ELSE notified

\* _check_process_task, lines 136-181; elapsed: the timeout has run out
CheckProcessTask(task_id, result, elapsed) ==
    /\ check_outcome' = [check_outcome EXCEPT ![task_id] = result.cause]
    /\ IF ~result.success \/ result.stdout = ""
       THEN /\ tasks' = [tasks EXCEPT ![task_id].status = "completed"]
            /\ notified' = Notify(task_id)
       ELSE IF tasks[task_id].timeout /\ elapsed
       THEN /\ tasks' = [tasks EXCEPT ![task_id].status = "timeout"]
            /\ notified' = Notify(task_id)
       ELSE UNCHANGED <<tasks, notified>>

\* _monitor_loop, lines 238-239: the ids of this round
MonitorSnapshot ==
    /\ monitor.pc = "sleep"
    /\ monitor' = [pc |-> "visit", task_ids |-> KeyList(DOMAIN tasks)]
    /\ UNCHANGED <<poolvars, pfvars, sweepvars, cmdvars, loginvars, tasks, task_counter,
                   notified, pid_alive, check_outcome>>

\* lines 241-245: the next id of the round; a task still stored and
\* 'running' is checked
MonitorVisit ==
    /\ monitor.pc = "visit"
    /\ monitor.task_ids # <<>>
    /\ LET task_id == Head(monitor.task_ids) IN
          IF task_id \in DOMAIN tasks /\ tasks[task_id].status = "running"
          THEN \E result \in ExecuteResults(task_id), elapsed \in BOOLEAN :
                  CheckProcessTask(task_id, result, elapsed)
          ELSE UNCHANGED <<tasks, notified, check_outcome>>
    /\ monitor' = [monitor EXCEPT !.task_ids = Tail(@)]
    /\ UNCHANGED <<poolvars, pfvars, sweepvars, cmdvars, loginvars, task_counter, pid_alive>>

\* line 247: the round is over
MonitorSleep ==
    /\ monitor.pc = "visit"
    /\ monitor.task_ids = <<>>
    /\ monitor' = MonitorSleeping
    /\ UNCHANGED <<poolvars, pfvars, sweepvars, cmdvars, loginvars, tasks, task_counter,
                   notified, pid_alive, check_outcome>>

TaskNext ==
    \/ \E notify \in BOOLEAN, timeout \in BOOLEAN : AddTask(notify, timeout)
    \/ \E task_id \in TaskIds : RemoveTask(task_id)
    \/ \E task_id \in TaskIds : ProcessExits(task_id)
    \/ MonitorSnapshot
    \/ MonitorVisit
    \/ MonitorSleep

TaskSpec == Init /\ [][TaskNext]_vars

\* ----------------------------------------------------------------- claims
Status(i) == forward_info[i].status
Port(i) == forward_info[i].local_port

\* C1: no two tunnel descriptors whose status is starting, running or
\* stopping have the same local_port.
C1_NoSharedPort ==
    \A i \in Ids, j \in Ids :
        (i # j /\ Status(i) \in NonTerminal /\ Status(j) \in NonTerminal)
            => Port(i) # Port(j)

\* two tunnels are live at once, the second one created while a stop_forward
\* of the first was possible
C1_Witness ==
    \E i \in Ids, j \in Ids :
        /\ i # j
        /\ Status(i) = "running" /\ Status(j) = "starting"
        /\ Port(i) # Port(j)

\* C2 (as stated): create_forward calls without a local_port, made from no
\* tunnels with every bind test passing, all succeed, and their ports are
\* pairwise distinct and are exactly FORWARD_START .. FORWARD_START + N - 1.
C2_DistinctPorts ==
    /\ (last_call.op = "create" /\ last_call.local_port = None /\ last_call.clear
            /\ Cardinality(Ids) < NumPorts)
          => last_call.ret
    /\ (Ids = auto_ids) =>
          /\ \A i \in Ids, j \in Ids : i # j => Port(i) # Port(j)
          /\ {Port(i) : i \in Ids} = FORWARD_START .. (FORWARD_START + Cardinality(Ids) - 1)

\* C2 (amended): such calls all succeed and every port they return is in
\* FORWARD_START .. FORWARD_START + N - 1; two of them return the same port
\* only if the earlier tunnel's worker had released it; as long as no worker
\* has released its port the ports are exactly that range.
C2_DistinctWhileReserved ==
    /\ (last_call.op = "create" /\ last_call.local_port = None /\ last_call.clear
            /\ Cardinality(Ids) < NumPorts)
          => last_call.ret
    /\ (Ids = auto_ids) =>
          /\ \A i \in Ids :
                Port(i) \in FORWARD_START .. (FORWARD_START + Cardinality(Ids) - 1)
          /\ \A i \in Ids, j \in Ids :
                (i < j /\ Port(i) = Port(j)) => worker[i] = "w_done"
          /\ (\A i \in Ids : worker[i] # "w_done") =>
                {Port(i) : i \in Ids} =
                    FORWARD_START .. (FORWARD_START + Cardinality(Ids) - 1)

\* MaxForwards calls without a local_port have returned, none released
C2_Witness ==
    /\ forward_counter = MaxForwards
    /\ Ids = auto_ids
    /\ last_call.op = "create" /\ last_call.ret /\ last_call.fid = MaxForwards
    /\ \A i \in Ids : worker[i] # "w_done"

\* C3: every descriptor in status starting, running or stopping has its
\* local_port in _reserved_ports, so that _is_port_available is false for it.
C3_ReservedWhileLive ==
    \A i \in Ids :
        Status(i) \in NonTerminal =>
            (Port(i) \in reserved_ports /\ ~IsPortAvailable(Port(i)))

\* a tunnel is being stopped while its worker already waits to release
C3_Witness ==
    \E i \in Ids :
        /\ Status(i) = "stopping"
        /\ worker[i] = "w_release"
        /\ Port(i) \in reserved_ports

\* C4: delete_forward on a known id terminates: a thread inside
\* delete_forward that waits for the manager lock (in stop_forward, line 297)
\* does not hold that lock itself, so it, and the other operations, get it.
C4_DeleteTerminates ==
    \A c \in Callers :
        (callers[c].op = "delete" /\ callers[c].pc = "stop") => lock # c

\* a server create_forward can use: stored, with a key or a password
UsableServer(name) ==
    /\ name \in DOMAIN servers
    /\ AuthOf(servers[name]) # "none"

\* C6: create_forward for a server that is not stored or has neither
\* password nor key fails in the call: no descriptor, id, reservation or
\* worker ever exists for such a server.
C6_FailFast ==
    \A i \in Ids : UsableServer(forward_info[i].server_name)

\* C7: once stop_forward has returned true for a running tunnel, its status
\* is stopped and stays stopped under every later step of its worker.
C7_StoppedStays ==
    \A i \in stop_returned : Status(i) = "stopped"

\* C8: after stop_forward has returned for a running tunnel with local port
\* P, a create_forward with explicit local_port P that passes the bind test
\* succeeds, whatever the stopped tunnel's worker has done by then.
C8_ReservableAfterStop ==
    [][\A P \in ExplicitPorts :
          ( /\ last_call' # last_call
            /\ last_call'.op = "create"
            /\ last_call'.local_port = P
            /\ BindOk(P)
            /\ \E i \in stop_returned : Port(i) = P
            /\ \A i \in Ids : Port(i) = P => i \in stop_returned )
          => last_call'.ret]_vars

\* C9, the state machine: the status changes only along these transitions
AllowedTransitions ==
    {<<"starting", "running">>, <<"running", "stopped">>, <<"running", "error">>,
     <<"running", "stopping">>, <<"stopping", "stopped">>}

C9_Transitions ==
    [][\A i \in Ids :
          Status(i)' # Status(i) => <<Status(i), Status(i)'>> \in AllowedTransitions]_vars

\* C9: stopped and error are terminal: once a descriptor's status is stopped
\* or error it never changes again.
C9_TerminalIsFinal ==
    [][\A i \in Ids : Status(i) \in Terminal => Status(i)' = Status(i)]_vars

\* C10: whenever a descriptor is stopped or error then, its worker being
\* scheduled, the worker's release of its port (line 293) is carried out and
\* stopped_at is recorded.  (The port itself may by then be reserved again,
\* by a later tunnel, so the release is read off the worker's position.)
C10_TerminalReleases ==
    \A id \in 1 .. MaxForwards :
        (id \in Ids /\ Status(id) \in Terminal)
            ~> (id \in Ids /\ worker[id] = "w_done"
                    /\ forward_info[id].stopped_at)

\* C11: a port leaves _reserved_ports only in the release step of the worker
\* of the tunnel that reserved it (the latest tunnel on that port), that
\* tunnel being stopped or error; a worker releases once; and the port removed
\* is not the port of another tunnel that is starting or running.
C11_ReleaseByOwner ==
    [][/\ \A p \in reserved_ports \ reserved_ports' :
             \E id \in Ids :
                /\ worker[id] = "w_release" /\ worker'[id] = "w_done"
                /\ Port(id) = p
                /\ Status(id) \in Terminal
                /\ \A j \in Ids : Port(j) = p => j <= id
                /\ \A j \in Ids \ {id} :
                      ~(Port(j) = p /\ Status(j) \in {"starting", "running"})
       /\ \A id \in Ids : worker[id] = "w_done" => worker'[id] = "w_done"]_vars

\* a worker has released its port while another tunnel holds its own
C11_Witness ==
    \E i \in Ids, j \in Ids :
        /\ i # j
        /\ worker[i] = "w_done" /\ Port(i) \notin reserved_ports
        /\ Status(j) \in {"starting", "running"} /\ Port(j) \in reserved_ports

\* C12: a create_forward with an explicit local_port P succeeds only if P is
\* not reserved, not the port of a starting or running tunnel, and passes the
\* bind test; it fails if a running tunnel holds P; and a failing call leaves
\* the reservation set, the descriptors, the counter and the workers unchanged.
C12_ExplicitPort ==
    [][\A P \in ExplicitPorts :
          ( /\ last_call' # last_call
            /\ last_call'.op = "create"
            /\ last_call'.local_port = P )
          => /\ last_call'.ret =>
                   /\ P \notin reserved_ports
                   /\ \A i \in forwards :
                         ~(Port(i) = P /\ Status(i) \in {"starting", "running"})
                   /\ BindOk(P)
             /\ (\E i \in forwards : Port(i) = P /\ Status(i) = "running")
                   => ~last_call'.ret
             /\ ~last_call'.ret =>
                   UNCHANGED <<reserved_ports, forwards, forward_info,
                               forward_counter, forward_threads, worker>>]_vars

\* a create_forward on the port of a running tunnel has been refused
C12_Witness ==
    /\ last_call.op = "create" /\ ~last_call.ret
    /\ last_call.local_port # None
    /\ \E i \in forwards : Port(i) = last_call.local_port /\ Status(i) = "running"

\* C13: a create_forward without a local_port returns an error only from its
\* MAX_PORT_RETRY-th scan, that scan finding no port, and the failing call
\* leaves the reservation set, the descriptors, the counter and the workers
\* unchanged; a call between scans has made 1 .. MAX_PORT_RETRY - 1 scans.
C13_Exhaustion ==
    [][/\ ( /\ last_call' # last_call
            /\ last_call'.op = "create"
            /\ last_call'.local_port = None
            /\ ~last_call'.ret )
          => /\ \E c \in Callers :
                   /\ callers[c].pc = "scan" /\ callers'[c].pc = "idle"
                   /\ lock = c
                   /\ callers[c].retry = MAX_PORT_RETRY - 1
             /\ \A p \in AutoPorts : ~IsPortAvailable(p)
             /\ UNCHANGED <<reserved_ports, forwards, forward_info,
                            forward_counter, forward_threads, worker>>
       /\ \A c \in Callers :
             callers'[c].pc = "scan" =>
                callers'[c].retry \in 1 .. (MAX_PORT_RETRY - 1)]_vars

\* a create_forward without a local_port has failed for want of a port
C13_Witness ==
    /\ last_call.op = "create" /\ ~last_call.ret
    /\ last_call.local_port = None

\* C15: no thread holds the manager lock while it waits for a child process
\* to exit or sleeps (stop_forward lines 306-317, the scan's sleep line 161).
C15_NoLockAcrossWait ==
    \A c \in Callers : callers[c].pc \in {"s_term", "scan"} => lock # c

\* the get_connection part of a call: from the lock to its return
InGetConnection(t) ==
    /\ pool_threads[t].op \in {"get_connection", "execute_command"}
    /\ pool_threads[t].pc \in {"probe", "create"}

\* C14: the pool's lock is not held across a network call: no thread is in
\* the liveness probe or in the creation of a connection holding the lock
\* (so a get_connection for another server can take it and complete).
C14_NoLockAcrossNetwork ==
    \A t \in PoolThreads : InGetConnection(t) => pool_lock # t

\* C16: every execute_command call returns in the end, also when the remote
\* command never ends or the transport is half-dead.
C16_ExecuteReturns ==
    \A t \in PoolThreads :
        (pool_threads[t].op = "execute_command" /\ pool_threads[t].pc # "idle")
            ~> (pool_threads[t].pc = "idle")

\* C17: a result of execute_command has its four fields filled; if a step
\* failed (no client, deadline exceeded, error of the transport) it is
\* success=false, stdout empty, exit_code=-1 and stderr the cause; otherwise
\* success is true exactly if exit_code is 0.
C17_ResultShape ==
    \A t \in PoolThreads :
        LET ret == pool_threads[t].ret IN
        ret.kind = "result" =>
            /\ ret.stdout # "none" /\ ret.stderr # "none"
            /\ IF ret.cause # "none"
               THEN /\ ~ret.success /\ ret.exit_code = -1
                    /\ ret.stdout = "empty" /\ ret.stderr = "cause"
               ELSE ret.success <=> (ret.exit_code = 0)

\* C18: when a pooled client exists for the name and its probe succeeds (the
\* transport is active and the server answers), get_connection returns that
\* client, creates nothing (the number of clients created stays) and leaves
\* the map unchanged.
C18_ReuseHealthy ==
    [][\A t \in PoolThreads :
          ( /\ pool_threads[t].pc = "probe"
            /\ pool_threads'[t] # pool_threads[t]
            /\ clients[connections[pool_threads[t].name]].active
            /\ ~clients[connections[pool_threads[t].name]].closed
            /\ clients[connections[pool_threads[t].name]].answers )
          => /\ pool_threads'[t].pc \in {"run", "idle"}
             /\ pool_threads'[t].client = connections[pool_threads[t].name]
             /\ Len(clients') = Len(clients)
             /\ connections' = connections]_vars

\* one call has run a command to its end on a client, and another call holds
\* the same client after its probe, no second client having been created
C18_Witness ==
    \E t \in PoolThreads, u \in PoolThreads :
        /\ t # u
        /\ Len(clients) = 1
        /\ pool_threads[u].pc = "idle" /\ pool_threads[u].client = 1
        /\ pool_threads[u].ret.kind = "result" /\ pool_threads[u].ret.success
        /\ pool_threads[t].op = "execute_command"
        /\ pool_threads[t].pc = "run" /\ pool_threads[t].client = 1
        /\ pool_threads[t].name = pool_threads[u].name
        /\ connections[pool_threads[t].name] = 1

\* C19: a probe that fails closes the stale client and removes its entry in
\* the same call, which then makes one creation attempt and returns: either
\* the map holds the new client and one client more has been created, or the
\* call returns an error value (None, the failure result) and the map has no
\* entry for the name.
C19_StaleReplaced ==
    [][\A t \in PoolThreads :
          LET name == pool_threads[t].name IN
          /\ ( /\ pool_threads[t].pc = "probe"
               /\ pool_threads'[t] # pool_threads[t]
               /\ ~( /\ clients[connections[name]].active
                     /\ ~clients[connections[name]].closed
                     /\ clients[connections[name]].answers ) )
             => /\ clients'[connections[name]].closed
                /\ name \notin DOMAIN connections'
                /\ Len(clients') = Len(clients)
                /\ pool_threads'[t].pc = "create"
                /\ pool_threads'[t].stale = connections[name]
          /\ ( /\ pool_threads[t].pc = "create"
               /\ pool_threads[t].stale # 0
               /\ pool_threads'[t] # pool_threads[t] )
             => /\ pool_threads'[t].pc \in {"run", "idle"}
                /\ \/ /\ Len(clients') = Len(clients) + 1
                      /\ name \in DOMAIN connections'
                      /\ connections'[name] = Len(clients')
                      /\ pool_threads'[t].client = Len(clients')
                   \/ /\ clients' = clients
                      /\ name \notin DOMAIN connections'
                      /\ pool_threads'[t].client = 0
                      /\ pool_threads'[t].ret.kind \in {"None", "result"}
                      /\ ~pool_threads'[t].ret.success]_vars

\* a call has discarded a stale client and holds the one it created instead
C19_Witness ==
    \E t \in PoolThreads :
        /\ pool_threads[t].stale # 0
        /\ clients[pool_threads[t].stale].closed
        /\ pool_threads[t].pc \in {"run", "idle"}
        /\ pool_threads[t].client # 0
        /\ pool_threads[t].client # pool_threads[t].stale
        /\ pool_threads[t].name \in DOMAIN connections
        /\ connections[pool_threads[t].name] = pool_threads[t].client

\* C20: get_connection calls for one name create one client: a second
\* pooled client for the name exists only once the first has been discarded
\* (closed) as stale, and every call that returns a client returns the one
\* the map holds for the name.
C20_OneHandle ==
    [][/\ \A h1 \in DOMAIN clients', h2 \in DOMAIN clients' :
             ( /\ h1 < h2
               /\ clients'[h1].server = clients'[h2].server
               /\ h1 \notin standalone_clients' /\ h2 \notin standalone_clients' )
             => clients'[h1].closed
       /\ \A t \in PoolThreads :
             ( /\ InGetConnection(t)
               /\ pool_threads'[t].pc \in {"run", "idle"}
               /\ pool_threads'[t].client # 0 )
             => /\ pool_threads[t].name \in DOMAIN connections'
                /\ connections'[pool_threads[t].name] = pool_threads'[t].client]_vars

\* two get_connection calls for one name have returned the same, only, client
C20_Witness ==
    \E t \in PoolThreads, u \in PoolThreads :
        /\ t # u
        /\ Len(clients) = 1
        /\ pool_threads[t].op = "get_connection" /\ pool_threads[u].op = "get_connection"
        /\ pool_threads[t].name = pool_threads[u].name
        /\ pool_threads[t].pc = "idle" /\ pool_threads[u].pc = "idle"
        /\ pool_threads[t].client = 1 /\ pool_threads[u].client = 1

\* a stop_forward has been asked for the tunnel and found it running
StopRequested(i) ==
    \/ i \in stop_returned
    \/ \E c \in Callers :
          callers[c].fid = i /\ callers[c].pc \in {"s_set", "s_term", "s_stopped"}

\* C25: a tunnel whose child exits while it is running, no stop having been
\* requested, ends in status error with a message, never in stopped: a
\* descriptor is stopped only if a stop_forward was requested for it.
C25_ExitIsError ==
    \A i \in Ids : Status(i) = "stopped" => StopRequested(i)

\* C26: stop_forward and delete_forward on an id that is not in the
\* descriptor map return false and leave the descriptor map, the reservation
\* set, the process table and every descriptor unchanged.
C26_UnknownId ==
    [][( /\ last_call' # last_call
         /\ last_call'.op \in {"stop", "delete"}
         /\ last_call'.fid \notin forwards )
       => /\ ~last_call'.ret
          /\ UNCHANGED <<forwards, forward_info, reserved_ports,
                         forward_processes, process, forward_threads>>]_vars

\* a stop_forward for an id that does not exist has returned false while a
\* tunnel exists
C26_Witness ==
    /\ last_call.op = "stop" /\ ~last_call.ret
    /\ last_call.fid \notin forwards
    /\ forwards # {}

\* C29: a descriptor whose status is running has had its child process
\* spawned.
C29_SpawnBeforeRunning ==
    \A i \in Ids : Status(i) = "running" => process[i] # "none"

\* C30: a stop_forward that finds a known tunnel in a status other than
\* running returns true at once and leaves the descriptors, the child
\* processes and the reservation set unchanged; stop_forward goes on to
\* change a descriptor only when it found it running.
C30_StopOnlyRunning ==
    [][/\ ( /\ last_call' # last_call
            /\ last_call'.op = "stop"
            /\ last_call'.fid \in forwards
            /\ Status(last_call'.fid) # "running"
            /\ lock = 0 )
          => /\ last_call'.ret
             /\ UNCHANGED <<forward_info, process, forward_processes,
                            reserved_ports, forwards>>
       /\ \A c \in Callers :
             (callers[c].pc # "s_set" /\ callers'[c].pc = "s_set")
                => /\ Status(callers'[c].fid) = "running"
                   /\ UNCHANGED forward_info]_vars

\* a stop_forward has returned true for a tunnel that is still starting
C30_Witness ==
    /\ last_call.op = "stop" /\ last_call.ret
    /\ last_call.fid \in forwards
    /\ Status(last_call.fid) = "starting"
    /\ last_call.fid \notin stop_returned

\* C27: the child command uses the key when the config has one, and then
\* neither sshpass nor SSHPASS; a password is used only without a key, and is
\* handed over in SSHPASS with 'sshpass -e'; the password never is an element
\* of the argument list.
C27_PasswordNotInArgs ==
    (build_output.built /\ ~build_output.raised) =>
        LET cmd == build_output.ssh_command
            has_key == build_input.key_file \notin {"absent", ""}
            has_password == build_input.password \notin {"absent", ""}
        IN /\ has_key \/ has_password
           /\ has_key =>
                 /\ cmd[1] = "ssh"
                 /\ cmd[Len(cmd) - 1] = "-i" /\ cmd[Len(cmd)] = build_input.key_file
                 /\ "sshpass" \notin Range(cmd)
                 /\ build_output.SSHPASS = "unset"
           /\ (~has_key /\ has_password) =>
                 /\ cmd[1] = "sshpass" /\ cmd[2] = "-e" /\ cmd[3] = "ssh"
                 /\ build_output.SSHPASS = build_input.password
           /\ has_password => build_input.password \notin Range(cmd)

\* the command has been built for a config with a password and an empty key
C27_Witness ==
    /\ build_output.built /\ ~build_output.raised
    /\ build_input.password = "secret"
    /\ build_input.key_file = ""
    /\ build_output.SSHPASS = "secret"

\* C22: get_client leaves the map unchanged and its client is in the
\* standalone set and not in the map; no entry of the map and no client
\* returned by get_connection is a standalone client.
C22_StandaloneApart ==
    [][/\ \A t \in PoolThreads :
             ( /\ pool_threads[t].op = "get_client"
               /\ pool_threads[t].pc = "create"
               /\ pool_threads'[t] # pool_threads[t] )
             => /\ connections' = connections
                /\ pool_threads'[t].client # 0 =>
                      /\ pool_threads'[t].client = Len(clients')
                      /\ Len(clients') = Len(clients) + 1
                      /\ pool_threads'[t].client \in standalone_clients'
       /\ \A t \in PoolThreads :
             ( /\ InGetConnection(t)
               /\ pool_threads'[t].pc \in {"run", "idle"}
               /\ pool_threads'[t].client # 0 )
             => pool_threads'[t].client \notin standalone_clients'
       /\ \A name \in DOMAIN connections' :
             connections'[name] \notin standalone_clients']_vars

\* a get_connection has returned a pooled client for a name for which a
\* standalone client had been created before
C22_Witness ==
    \E t \in PoolThreads, u \in PoolThreads :
        /\ pool_threads[t].op = "get_client" /\ pool_threads[t].pc = "idle"
        /\ pool_threads[t].client \in standalone_clients
        /\ pool_threads[u].op = "get_connection" /\ pool_threads[u].pc = "idle"
        /\ pool_threads[u].name = pool_threads[t].name
        /\ pool_threads[u].client > pool_threads[t].client
        /\ pool_threads[u].client \notin standalone_clients

\* C21: a client that leaves the map (failed probe, delete_server, rename,
\* reload_servers, import in mode replace, the sweeper, close_all) is closed
\* in the step that removes it; an entry is replaced by another client only
\* if the old one is closed; hence every open pooled client is the entry of
\* its server name, at most one per name.
C21_OnePooledOpen ==
    [][/\ \A name \in DOMAIN connections :
             ( \/ name \notin DOMAIN connections'
               \/ connections'[name] # connections[name] )
             => clients'[connections[name]].closed
       /\ \A h \in DOMAIN clients' :
             (h \notin standalone_clients' /\ ~clients'[h].closed)
             => /\ clients'[h].server \in DOMAIN connections'
                /\ connections'[clients'[h].server] = h]_vars

\* the sweeper has evicted the first client of a name, which is closed, and
\* the map holds a second, open client for the same name
C21_Witness ==
    /\ sweeper.cleaned_pool = 1
    /\ \E h1 \in DOMAIN clients, h2 \in DOMAIN clients :
          /\ h1 < h2
          /\ clients[h1].server = clients[h2].server
          /\ h1 \notin standalone_clients /\ h2 \notin standalone_clients
          /\ clients[h1].closed /\ ~clients[h2].closed
          /\ clients[h2].server \in DOMAIN connections
          /\ connections[clients[h2].server] = h2

\* C23 (first part): no sweep starts once a close_all has returned.
C23_SweeperStopped ==
    [][close_all_returned > 0 =>
          ~(sweeper.pc = "sleep" /\ sweeper'.pc = "check")]_vars

\* the rest of close_all's contract: when the call returns the map is empty
\* and every client that was pooled or tracked is closed; a call that finds
\* the map empty and every tracked client closed changes nothing
CloseAllEffect ==
    [][(closer = "lock" /\ closer' = "idle") =>
          /\ connections' = <<>>
          /\ \A h \in DOMAIN clients :
                (h \in standalone_clients \/ \E name \in DOMAIN connections :
                                                 connections[name] = h)
                => clients'[h].closed
          /\ ( /\ connections = <<>>
               /\ \A h \in standalone_clients :
                     clients[h].closed /\ ~clients[h].active )
             => /\ clients' = clients
                /\ connections' = connections
                /\ servers' = servers
                /\ standalone_clients' = standalone_clients]_vars

C28_ExactlyOneAuth ==
    [][\A name \in DOMAIN servers' :
          (name \notin DOMAIN servers \/ servers'[name] # servers[name])
          => /\ servers'[name].key_file = "set" \/ servers'[name].password = "set"
             /\ ~(servers'[name].key_file = "set" /\ servers'[name].password = "set")]_vars

\* C31: a create_forward without a local_port that succeeds reserves a port
\* of FORWARD_START .. FORWARD_MAX that was not reserved, was not the port of
\* a starting or running tunnel and passed the bind test, and every lower
\* port of the range failed one of these three tests.
C31_LowestAvailable ==
    [][( /\ forward_counter' = forward_counter + 1
         /\ last_call'.op = "create" /\ last_call'.local_port = None )
       => LET p == forward_info'[forward_counter'].local_port
              Taken(q) ==
                  \/ q \in reserved_ports
                  \/ \E i \in forwards :
                        /\ forward_info[i].local_port = q
                        /\ forward_info[i].status \in {"running", "starting"}
                  \/ q \in os_busy
          IN /\ p \in FORWARD_START .. FORWARD_MAX
             /\ ~Taken(p)
             /\ p \in reserved_ports'
             /\ \A q \in FORWARD_START .. (p - 1) : Taken(q)]_vars

\* an automatic allocation has returned a port above FORWARD_START, the
\* lowest port being held by another tunnel
C31_Witness ==
    /\ last_call.op = "create" /\ last_call.ret /\ last_call.local_port = None
    /\ last_call.fid \in Ids
    /\ Port(last_call.fid) > FORWARD_START
    /\ \E i \in Ids : i < last_call.fid /\ Port(i) = FORWARD_START

\* C32: no step closes a pooled client while an execute_command call that
\* got it from get_connection is running its command on it.
C32_NotClosedInUse ==
    [][\A t \in PoolThreads :
          ( /\ pool_threads[t].op = "execute_command"
            /\ pool_threads[t].pc = "wait"
            /\ ~clients[pool_threads[t].client].closed )
          => ~clients'[pool_threads[t].client].closed]_vars

\* C33: a client that get_connection returns for a name is connected to the
\* host that the name's descriptor holds at that moment.
C33_CurrentDescriptor ==
    [][\A t \in PoolThreads :
          ( /\ InGetConnection(t)
            /\ pool_threads'[t].pc \in {"run", "idle"}
            /\ pool_threads'[t].client # 0 )
          => clients'[pool_threads'[t].client].host
                = servers'[pool_threads[t].name].host]_vars

\* C34: a call of add_server, update_server or delete_server that returns
\* success=false leaves the server map and the connection map as they were.
C34_FailureChangesNothing ==
    [][( /\ last_store' = "failed"
         /\ (last_store # "failed" \/ servers' # servers) )
       => servers' = servers /\ connections' = connections]_vars

\* C35: when a tunnel's worker has finished (finally has run, the port is
\* released) its child, if one was started, has exited or has been sent
\* terminate or kill, and forward_processes has no entry for the tunnel.
C35_NoOrphanChild ==
    \A i \in Ids :
        worker[i] = "w_done" => (process[i] # "alive" /\ i \notin forward_processes)

\* the worker of a tunnel that stop_forward stopped has finished and released
\* the port, and the child it had started has been terminated
C35_Witness ==
    \E i \in Ids :
        /\ worker[i] = "w_done"
        /\ process[i] = "exited"
        /\ i \in stop_returned
        /\ Port(i) \notin reserved_ports

\* C5: for a server name that is not stored, execute_command returns a
\* result with success=false and exit_code=-1, and does not raise.
C5_ExecuteAbsent ==
    \A t \in PoolThreads :
        ( /\ pool_threads[t].op = "execute_command"
          /\ pool_threads[t].pc = "idle"
          /\ pool_threads[t].name \notin DOMAIN servers )
        => ( /\ pool_threads[t].ret.kind = "result"
             /\ ~pool_threads[t].ret.success
             /\ pool_threads[t].ret.exit_code = -1 )

\* a call of the login protection service has just returned
LoginCall(op) == last_login' # last_login /\ last_login'.op = op

\* what record_failed_attempt does when it locks: the count reached
\* max_attempts inside the window that began with the first failure counted
\* (first_attempt), the count is 0 afterwards and locked_until is ahead
LockoutActs ==
    [][\A ip \in IPs :
          (LoginCall("record_failed_attempt") /\ last_login'.ip = ip) =>
              LET attempt == Attempt(ip)
                  reached == /\ attempt.first_attempt > 0
                             /\ now - attempt.first_attempt <= Window
                             /\ attempt.count + 1 >= max_attempts
              IN  /\ last_login'.locked = reached
                  /\ last_login'.locked =>
                        /\ attempts'[ip].count = 0
                        /\ attempts'[ip].locked_until > now]_vars

\* check_rate_limit refuses exactly before locked_until
CheckFollowsLock ==
    [][\A ip \in IPs :
          (LoginCall("check_rate_limit") /\ last_login'.ip = ip) =>
              (last_login'.allowed = (now >= Attempt(ip).locked_until))]_vars

\* record_successful_login and unlock leave neither record behind
ResetRemoves ==
    [][\A ip \in IPs :
          ( /\ last_login'.ip = ip
            /\ LoginCall("record_successful_login") \/ LoginCall("unlock") )
          => (ip \notin DOMAIN attempts' /\ ip \notin DOMAIN lockout_counts')]_vars

\* max_attempts failures of one IP within window_seconds of each other, none
\* of them answered by a lockout and no successful login or unlock in between
Unanswered(ip) ==
    LET f == FailTimes(ip)
    IN  Len(f) = max_attempts /\ f[Len(f)] - f[1] <= Window

\* C36: once record_failed_attempt has been called max_attempts times for an
\* IP within window_seconds, with no successful login or unlock in between,
\* the IP is locked and its count is 0; check_rate_limit refuses before
\* locked_until and allows from then on; record_successful_login and unlock
\* remove the attempt record and the lockout count
C36_Lockout ==
    /\ [](\A ip \in IPs : ~Unanswered(ip))
    /\ LockoutActs
    /\ CheckFollowsLock
    /\ ResetRemoves

\* max_attempts failures less than a window apart, the first of them counted
\* in one window of the service and the rest in the next: the IP was never
\* locked
C36_Straddle ==
    \E ip \in IPs :
        /\ Unanswered(ip)
        /\ FailTimes(ip)[max_attempts] - FailTimes(ip)[1] < Window
        /\ ip \notin DOMAIN lockout_counts
        /\ attempts[ip].locked_until = 0
        /\ attempts[ip].count < max_attempts - 1

\* C37: at most max_attempts wrong passwords of one IP are compared within
\* one window before the lockout takes effect, and no request compares a
\* password while the IP is locked
C37_BruteForceBound ==
    /\ [](\A ip \in IPs :
            Attempt(ip).count
              + Cardinality({r \in Requests : requests[r] = "record_failed"})
                <= max_attempts)
    /\ [][\A r \in Requests, ip \in IPs :
            (requests[r] = "compare" /\ requests'[r] # "compare")
                => ~(Attempt(ip).locked_until > now)]_vars

\* a request that passed check_rate_limit before the lockout is about to
\* compare its password while the IP is locked
C37_CompareWhileLocked ==
    \E r \in Requests, ip \in IPs :
        /\ requests[r] = "compare"
        /\ Attempt(ip).locked_until > now
        /\ LockoutCount(ip) >= 1

\* the k-th lockout lasts min(base * 2^(k-1), max) seconds, for the powers
\* the float range holds
LockoutDoubles ==
    [][(LoginCall("record_failed_attempt") /\ last_login'.locked) =>
          LET k == last_login'.lockout_count
          IN  /\ k = LockoutCount(last_login'.ip) + 1
              /\ last_login'.lockout_seconds =
                    IF k - 1 > 12 THEN max_lockout_seconds
                    ELSE Min(base_lockout_seconds * 2 ^ (k - 1), max_lockout_seconds)
              /\ last_login'.lockout_seconds <= max_lockout_seconds
              /\ attempts'[last_login'.ip].locked_until
                    = now + last_login'.lockout_seconds \div TimeUnit]_vars

\* C38: the k-th lockout of an IP since its last successful login, unlock
\* or expiry cleanup lasts min(base_lockout_seconds * 2^(k-1),
\* max_lockout_seconds) seconds: whenever the count of failures reaches
\* max_attempts, record_failed_attempt locks the IP for that long
C38_IncrementalLockout ==
    /\ LockoutDoubles
    /\ [][\A ip \in IPs :
            (LoginCall("record_failed_attempt") /\ last_login'.ip = ip
               /\ lockout_counts' # lockout_counts)
            => (last_login'.locked /\ ~last_login'.raised)]_vars

\* the 1025th lockout in a row: the power left the float range, the call
\* raised, the IP is not locked any further and its count was not reset
C38_Overflow ==
    \E ip \in IPs :
        /\ last_login.raised
        /\ LockoutCount(ip) = FLOAT_MAX_EXP + 1
        /\ attempts[ip].count >= max_attempts

\* the monitor has just checked this task
Checked(task_id) ==
    /\ task_id \in DOMAIN tasks /\ task_id \in DOMAIN tasks'
    /\ tasks[task_id].status = "running"
    /\ monitor.pc = "visit" /\ monitor.task_ids # <<>>
    /\ Head(monitor.task_ids) = task_id
    /\ monitor'.task_ids = Tail(monitor.task_ids)

\* a task that is completed or timeout is left alone: not checked, not
\* changed, nobody notified
FinishedStays ==
    [][\A task_id \in DOMAIN tasks :
          (tasks[task_id].status \in {"completed", "timeout"}
             /\ task_id \in DOMAIN tasks')
          => /\ tasks'[task_id] = tasks[task_id]
             /\ notified'[task_id] = notified[task_id]
             /\ check_outcome'[task_id] = check_outcome[task_id]]_vars

\* C39: a process task goes from running to completed only when the remote
\* check was carried out and showed the PID absent; when execute_command
\* fails for another reason the task stays running and nobody is notified;
\* a task that is completed or timeout is never checked or notified again
C39_CompletedOnlyWhenAbsent ==
    /\ [][\A task_id \in TaskIds :
            Checked(task_id) =>
               /\ tasks'[task_id].status = "completed"
                     => (check_outcome'[task_id] = "ran" /\ ~pid_alive[task_id])
               /\ check_outcome'[task_id] # "ran"
                     => /\ tasks'[task_id].status = "running"
                        /\ notified'[task_id] = notified[task_id]]_vars
    /\ FinishedStays

\* a task is completed and its completion was mailed, the watched process
\* still running: the check that completed it never reached the server
C39_CompletedWhileAlive ==
    \E task_id \in DOMAIN tasks :
        /\ tasks[task_id].status = "completed"
        /\ check_outcome[task_id] = "no_connection"
        /\ pid_alive[task_id]
        /\ notified[task_id] = 1

=============================================================================
